---- MODULE Spec2Model ----
(***************************************************************************)
(* Model of the PDF resolution and caching engine:                         *)
(*   app/backend/pdf_library.py            (library index, canonical key)  *)
(*   app/backend/step_handlers/pdf_fetch.py (PdfFetchHandler.run etc.)     *)
(*                                                                         *)
(* Text values (DOIs, URLs, keys, bodies) are sequences of one-character   *)
(* strings so that normalisation and substring tests are computed.         *)
(* Python's None is the empty sequence for text the code only tests for    *)
(* truthiness, and the string "None" for enumerated fields.                *)
(***************************************************************************)
EXTENDS Integers, Sequences, FiniteSets, TLC

VARIABLES
    disk_index,     \* records of pdf_library/index.json (key -> record)
    files,          \* file system: path -> body, for the files that exist
    index,          \* records of the index a run holds in memory
    clock,          \* utcnow_iso(), at the granularity the model needs
    pc,             \* position of run(): idle, cache, local, collect, ...
    cfg,            \* config of the run in progress
    input_entries,  \* entries of the run in progress
    index_no,       \* position of the for loop over input_entries
    ent,            \* locals of the entry being processed
    browser,        \* browser_session and the resources it started
    out,            \* pdf_found, pdf_missing, changes_all, changes_pdf_only
    result,         \* what run() returned or raised, "None" while it runs
    runs,           \* entries handed to run() so far (library calls, in SpecLib)
    trace,          \* history: the steps taken for the entry being processed
    lib_calls,      \* history: mark_record_missing calls per key since creation
    deleted,        \* the last call of delete_record, and what it answered
    store,          \* pdf_library/index.json as text, its writer and its readers
    call            \* a call of one of the pure helpers: its arguments and what it returned

vars == <<disk_index, files, index, clock, pc, cfg, input_entries, index_no,
          ent, browser, out, result, runs, trace, lib_calls, deleted, store, call>>

------------------------------------------------------------------------------
(* Bounds of the model *)

\* entries handed to run(), over all the runs of a behaviour
MaxEntries == 2
\* calls of the library's functions in a behaviour of SpecLib
MaxLibCalls == 3
\* ticks of the clock in a behaviour of SpecLib
MaxClock == 1

------------------------------------------------------------------------------
(* Text helpers: Python str methods on sequences of characters *)

NoText == <<>>

\* Python's assignment x = e: e is evaluated once and F sees its value
Bind(e, F(_)) == CHOOSE r \in {F(x) : x \in {e}} : TRUE

Digits == {"0", "1", "2", "3", "4", "5", "6", "7", "8", "9"}

Whitespace == {" "}

UpperToLower ==
    [c \in {"A", "B", "C", "D", "E", "F", "H", "I", "O", "P", "S", "T", "X"} |->
        CASE c = "A" -> "a" [] c = "B" -> "b" [] c = "C" -> "c" [] c = "D" -> "d"
          [] c = "E" -> "e" [] c = "F" -> "f" [] c = "H" -> "h" [] c = "I" -> "i"
          [] c = "O" -> "o" [] c = "P" -> "p" [] c = "S" -> "s" [] c = "T" -> "t"
          [] c = "X" -> "x"]

LowerChar(c) == IF c \in DOMAIN UpperToLower THEN UpperToLower[c] ELSE c

Lower(s) == SubSeq([i \in 1..Len(s) |-> LowerChar(s[i])], 1, Len(s))

StartsWith(s, p) == Len(s) >= Len(p) /\ SubSeq(s, 1, Len(p)) = p

DropFirst(s, n) == SubSeq(s, n + 1, Len(s))

\* s contains needle (Python's `needle in s`)
Contains(s, needle) ==
    \E i \in 1..(Len(s) - Len(needle) + 1) : SubSeq(s, i, i + Len(needle) - 1) = needle

\* position of the first character of s that is in set cs, or Len(s) + 1
FirstOf(s, cs) ==
    IF \E i \in 1..Len(s) : s[i] \in cs
    THEN CHOOSE i \in 1..Len(s) : s[i] \in cs /\ \A j \in 1..(i - 1) : s[j] \notin cs
    ELSE Len(s) + 1

\* s.split(c, 1)[0]
Before(s, cs) == SubSeq(s, 1, FirstOf(s, cs) - 1)

\* s.strip(chars)
Strip(s, cs) ==
    IF \A i \in 1..Len(s) : s[i] \in cs THEN <<>>
    ELSE LET a == CHOOSE i \in 1..Len(s) : s[i] \notin cs /\ \A j \in 1..(i - 1) : s[j] \in cs
             b == CHOOSE i \in 1..Len(s) : s[i] \notin cs /\ \A j \in (i + 1)..Len(s) : s[j] \in cs
         IN SubSeq(s, a, b)

\* s.replace(c, "")
RECURSIVE Remove(_, _)
Remove(s, c) ==
    IF s = <<>> THEN <<>>
    ELSE IF Head(s) = c THEN Remove(Tail(s), c)
    ELSE <<Head(s)>> \o Remove(Tail(s), c)

\* urllib.parse.unquote on the escapes the model's alphabet can spell
PercentDecode(h1, h2) ==
    CASE <<h1, LowerChar(h2)>> = <<"2", "f">> -> <<"/">>
      [] <<h1, LowerChar(h2)>> = <<"3", "a">> -> <<":">>
      [] <<h1, LowerChar(h2)>> = <<"2", "5">> -> <<"%">>
      [] <<h1, LowerChar(h2)>> = <<"2", "0">> -> <<" ">>
      [] OTHER -> <<"%", h1, h2>>

RECURSIVE unquote(_)
unquote(s) ==
    IF s = <<>> THEN <<>>
    ELSE IF Head(s) = "%" /\ Len(s) >= 3
    THEN PercentDecode(s[2], s[3]) \o unquote(DropFirst(s, 3))
    ELSE <<Head(s)>> \o unquote(Tail(s))

------------------------------------------------------------------------------
(* pdf_library.py: normalisation and canonical key *)

Txt_doi_colon == <<"d", "o", "i", ":">>
Txt_url_colon == <<"u", "r", "l", ":">>
Txt_http == <<"h", "t", "t", "p">>
Txt_https == <<"h", "t", "t", "p", "s">>
Txt_doi_org == <<"d", "o", "i", ".", "o", "r", "g", "/">>

DoiOrgPrefixes ==
    { sch \o <<":", "/", "/">> \o dx \o Txt_doi_org :
        sch \in {Txt_http, Txt_https}, dx \in {<<>>, <<"d", "x", ".">>} }

\* re.sub(r"(?i)^https?://(dx\.)?doi\.org/", "", value)
StripDoiOrgPrefix(value) ==
    IF \E p \in DoiOrgPrefixes : StartsWith(Lower(value), p)
    THEN LET p == CHOOSE q \in DoiOrgPrefixes : StartsWith(Lower(value), q)
         IN DropFirst(value, Len(p))
    ELSE value

\* value.lstrip() as done by the \s* of a prefix pattern
LStrip(s, cs) ==
    IF \A i \in 1..Len(s) : s[i] \in cs THEN <<>>
    ELSE SubSeq(s, FirstOf(s, {s[i] : i \in 1..Len(s)} \ cs), Len(s))

\* re.sub(r"(?i)^doi:\s*", "", value)
StripDoiColonPrefix(value) ==
    IF StartsWith(Lower(value), Txt_doi_colon)
    THEN LStrip(DropFirst(value, 4), Whitespace)
    ELSE value

\* re.match(r"^10\.\d{4,9}/\S+$", value)
IsDoiShape(value) ==
    /\ StartsWith(value, <<"1", "0", ".">>)
    /\ Bind(DropFirst(value, 3), LAMBDA rest :
       Bind(FirstOf(rest, {rest[i] : i \in 1..Len(rest)} \ Digits) - 1, LAMBDA n :
          /\ n >= 4
          /\ n <= 9
          /\ Len(rest) >= n + 2
          /\ rest[n + 1] = "/"
          /\ \A i \in (n + 2)..Len(rest) : rest[i] \notin Whitespace))

normalize_doi(raw) ==
    Bind(Strip(raw, Whitespace), LAMBDA v1 :
    IF v1 = <<>> THEN NoText ELSE
    Bind(Strip(v1, {"{", "}"}), LAMBDA v2 :
    Bind(unquote(v2), LAMBDA v3 :
    Bind(Remove(v3, "\\"), LAMBDA v4 :
    Bind(Strip(v4, Whitespace), LAMBDA v5 :
    Bind(StripDoiOrgPrefix(v5), LAMBDA v6 :
    Bind(StripDoiColonPrefix(v6), LAMBDA v7 :
    Bind(Before(v7, {"?"}), LAMBDA q :
    Bind(Before(q, {"#"}), LAMBDA h :
    Bind(Strip(h, Whitespace), LAMBDA t :
    Bind(Strip(t, {"/"}), LAMBDA v8 :
    Bind(Lower(v8), LAMBDA v9 :
       IF v9 = <<>> THEN NoText
       ELSE IF ~IsDoiShape(v9) THEN NoText
       ELSE v9))))))))))))

\* urllib.parse.urlparse: scheme, netloc, path, query (fragment dropped)
SchemeBreakers == {"/", "?", "#", ":", " ", "%", "{", "}", "\\", "="}

urlparse(value) ==
    Bind(FirstOf(value, {":"}), LAMBDA colon :
    Bind(/\ colon > 1
         /\ colon <= Len(value)
         /\ value[1] \notin Digits \cup {".", "-"}
         /\ \A i \in 1..(colon - 1) : value[i] \notin SchemeBreakers, LAMBDA hasScheme :
    Bind(IF hasScheme THEN DropFirst(value, colon) ELSE value, LAMBDA rest :
    Bind(StartsWith(rest, <<"/", "/">>), LAMBDA hasNetloc :
    Bind(IF hasNetloc THEN DropFirst(rest, 2) ELSE rest, LAMBDA afterSlashes :
    Bind(IF hasNetloc THEN Before(afterSlashes, {"/", "?", "#"}) ELSE <<>>, LAMBDA netloc :
    Bind(DropFirst(afterSlashes, Len(netloc)), LAMBDA tail :
    Bind(Before(tail, {"#"}), LAMBDA noFrag :
    Bind(Before(noFrag, {"?"}), LAMBDA path :
       [scheme |-> IF hasScheme THEN Lower(SubSeq(value, 1, colon - 1)) ELSE <<>>,
        netloc |-> netloc,
        path |-> path,
        query |-> IF Len(path) < Len(noFrag)
                  THEN DropFirst(noFrag, Len(path) + 1) ELSE <<>>])))))))))

normalize_url(raw) ==
    Bind(Strip(raw, Whitespace), LAMBDA stripped :
    Bind(Strip(stripped, {"{", "}"}), LAMBDA value :
    IF value = <<>> THEN NoText ELSE
    Bind(urlparse(value), LAMBDA parsed :
    Bind(Lower(parsed.netloc), LAMBDA host :
    Bind(parsed.scheme \o <<":", "/", "/">> \o host \o parsed.path, LAMBDA base :
       IF parsed.scheme \notin {Txt_http, Txt_https} THEN NoText
       ELSE IF host = <<>> THEN NoText
       ELSE IF parsed.query # <<>> THEN base \o <<"?">> \o parsed.query
       ELSE base)))))

\* a variant of canonical_key_for_entry that looks at the URL first
canonical_key_url_first(entry) ==
    Bind(normalize_url(entry.url), LAMBDA url :
    IF url # NoText THEN Txt_url_colon \o url ELSE
    Bind(normalize_doi(entry.doi), LAMBDA doi :
    IF doi # NoText THEN Txt_doi_colon \o doi
    ELSE NoText))

\* entry.get("doi") or entry.get("DOI"); entry.get("url") or entry.get("URL")
canonical_key_for_entry(entry) ==
    Bind(normalize_doi(entry.doi), LAMBDA doi :
    IF doi # NoText THEN Txt_doi_colon \o doi ELSE
    Bind(normalize_url(entry.url), LAMBDA url :
    IF url # NoText THEN Txt_url_colon \o url
    ELSE NoText))

\* hashlib.sha256(key).hexdigest(): an injective tag (no collisions assumed)
Sha256(key) == <<"sha256">> \o key

\* the first 16 hex digits of the digest, assumed collision-free as well
key_to_record_id(key) == <<"id16">> \o Sha256(key)

NoPath == [dir |-> "none", name |-> NoText]

managed_pdf_path_for_key(key) == [dir |-> "files", name |-> Sha256(key)]

NoSize == 0 - 1

\* path.stat().st_size, None when the file cannot be read
file_size(fs, path) == IF path \in DOMAIN fs THEN Len(fs[path]) ELSE NoSize

------------------------------------------------------------------------------
(* pdf_library.py: records of the index *)

EmptyRecords == [k \in {} |-> 0]

\* a variant of _ensure_record that makes a new record at every call
ensure_record_recreating(records, key, title, now) ==
    [k \in DOMAIN records \cup {key} |->
        IF k = key
        THEN [id |-> key_to_record_id(key), key |-> key,
              doi |-> IF StartsWith(key, Txt_doi_colon) THEN DropFirst(key, 4) ELSE NoText,
              year |-> "", database |-> "", title |-> title, status |-> "missing",
              pdf_path |-> NoPath, managed_file |-> FALSE, source |-> "None",
              source_url |-> NoText, provider |-> "None", content_type |-> NoText,
              size_bytes |-> NoSize, project_ids |-> <<>>, step_ids |-> <<>>,
              entry_keys |-> <<>>, missing_reason |-> "not_checked", failure_count |-> 0,
              created_at |-> now, updated_at |-> now, last_checked_at |-> now]
        ELSE records[k]]

\* _ensure_record: the records after the call; the record is records[key]
ensure_record(records, key, title, now) ==
    LET created ==
            [id |-> key_to_record_id(key),
             key |-> key,
             doi |-> IF StartsWith(key, Txt_doi_colon) THEN DropFirst(key, 4) ELSE NoText,
             year |-> "",
             database |-> "",
             title |-> title,
             status |-> "missing",
             pdf_path |-> NoPath,
             managed_file |-> FALSE,
             source |-> "None",
             source_url |-> NoText,
             provider |-> "None",
             content_type |-> NoText,
             size_bytes |-> NoSize,
             project_ids |-> <<>>,
             step_ids |-> <<>>,
             entry_keys |-> <<>>,
             missing_reason |-> "not_checked",
             failure_count |-> 0,
             created_at |-> now,
             updated_at |-> now,
             last_checked_at |-> now]
    IN Bind(IF key \in DOMAIN records THEN records[key] ELSE created, LAMBDA record :
       Bind(IF title # "" /\ record.title = ""
            THEN [record EXCEPT !.title = title]
            ELSE record, LAMBDA titled :
          [k \in DOMAIN records \cup {key} |-> IF k = key THEN titled ELSE records[k]]))

\* a variant of the loop's pass that appends without looking for the value
AddReference_unchecked(items, value) ==
    IF value = "" THEN items ELSE Append(items, value)

\* one pass of the loop of add_record_references
AddReference(items, value) ==
    IF value = "" THEN items
    ELSE IF \E i \in 1..Len(items) : items[i] = value THEN items
    ELSE Append(items, value)

add_record_references(record, project_id, step_id, entry_key) ==
    [record EXCEPT
        !.project_ids = AddReference(@, project_id),
        !.step_ids = AddReference(@, step_id),
        !.entry_keys = AddReference(@, entry_key)]

\* a variant of mark_record_found that clears failure_count on success
mark_record_found_resetting(records, a, now, fs) ==
    Bind(ensure_record(records, a.key, a.title, now), LAMBDA ensured :
       [ensured EXCEPT
          ![a.key] = add_record_references(
                        [ensured[a.key] EXCEPT !.status = "found",
                                               !.pdf_path = a.pdf_path,
                                               !.managed_file = a.managed_file,
                                               !.source = a.source,
                                               !.missing_reason = "None",
                                               !.failure_count = 0,
                                               !.last_checked_at = now,
                                               !.updated_at = now],
                        a.project_id, a.step_id, a.entry_key)])

\* a variant of mark_record_found that leaves missing_reason as it was
mark_record_found_keeping_reason(records, a, now, fs) ==
    Bind(ensure_record(records, a.key, a.title, now), LAMBDA ensured :
       [ensured EXCEPT
          ![a.key] = add_record_references(
                        [ensured[a.key] EXCEPT !.status = "found",
                                               !.pdf_path = a.pdf_path,
                                               !.managed_file = a.managed_file,
                                               !.source = a.source,
                                               !.last_checked_at = now,
                                               !.updated_at = now],
                        a.project_id, a.step_id, a.entry_key)])

\* mark_record_found(index, key=a.key, title=a.title, ...): the records after the call
mark_record_found(records, a, now, fs) ==
    Bind(ensure_record(records, a.key, a.title, now), LAMBDA ensured :
    Bind(ensured[a.key], LAMBDA record :
    Bind([record EXCEPT
            !.status = "found",
            !.title = IF a.title # "" THEN a.title ELSE @,
            !.year = IF a.year # "" THEN a.year ELSE @,
            !.database = IF a.database # "" THEN a.database ELSE @,
            !.pdf_path = a.pdf_path,
            !.managed_file = a.managed_file,
            !.source = a.source,
            !.source_url = a.source_url,
            !.provider = a.provider,
            !.content_type = a.content_type,
            !.size_bytes = file_size(fs, a.pdf_path),
            !.missing_reason = "None",
            !.last_checked_at = now,
            !.updated_at = now], LAMBDA updated :
       [ensured EXCEPT
          ![a.key] = add_record_references(updated, a.project_id, a.step_id, a.entry_key)])))

\* a variant of mark_record_missing that leaves failure_count alone
mark_record_missing_uncounted(records, a, now) ==
    Bind(ensure_record(records, a.key, a.title, now), LAMBDA ensured :
       [ensured EXCEPT
          ![a.key] = add_record_references(
                        [ensured[a.key] EXCEPT !.status = "missing",
                                               !.missing_reason = a.reason,
                                               !.last_checked_at = now,
                                               !.updated_at = now],
                        a.project_id, a.step_id, a.entry_key)])

\* mark_record_missing(index, key=a.key, title=a.title, reason=a.reason, ...)
mark_record_missing(records, a, now) ==
    Bind(ensure_record(records, a.key, a.title, now), LAMBDA ensured :
    Bind(ensured[a.key], LAMBDA record :
    Bind([record EXCEPT
            !.status = "missing",
            !.title = IF a.title # "" THEN a.title ELSE @,
            !.year = IF a.year # "" THEN a.year ELSE @,
            !.database = IF a.database # "" THEN a.database ELSE @,
            !.missing_reason = a.reason,
            !.failure_count = @ + 1,
            !.last_checked_at = now,
            !.updated_at = now], LAMBDA updated :
       [ensured EXCEPT
          ![a.key] = add_record_references(updated, a.project_id, a.step_id, a.entry_key)])))

\* get_record_by_id: the keys whose record has the id (the code takes the first)
get_record_by_id(records, record_id) ==
    {k \in DOMAIN records : records[k].id = record_id}

------------------------------------------------------------------------------
(* pdf_fetch.py: candidates, fetching and the DOI-likelihood guard *)

Min(a, b) == IF a <= b THEN a ELSE b

Max(a, b) == IF a >= b THEN a ELSE b

\* urllib.parse.quote(s, safe=""), on the characters the model's alphabet has
RECURSIVE quote(_)
quote(s) ==
    IF s = <<>> THEN <<>>
    ELSE (CASE Head(s) = "/" -> <<"%", "2", "F">>
            [] Head(s) = ":" -> <<"%", "3", "A">>
            [] Head(s) = "%" -> <<"%", "2", "5">>
            [] Head(s) = " " -> <<"%", "2", "0">>
            [] OTHER -> <<Head(s)>>) \o quote(Tail(s))

is_acm_doi(doi) == doi # NoText /\ StartsWith(doi, <<"1", "0", ".", "1", "1", "4", "5", "/">>)

\* re.search(r"\.pdf($|[?#])", url, flags=re.IGNORECASE)
is_pdf_like_url(url) ==
    \E i \in 1..(Len(url) - 3) :
        /\ Lower(SubSeq(url, i, i + 3)) = <<".", "p", "d", "f">>
        /\ (i + 3 = Len(url) \/ url[i + 4] \in {"?", "#"})

\* add_url_candidate: the (candidates, seen) pair after the call
RECURSIVE AddAll(_, _, _)

\* a variant of add_url_candidate that does not look into seen
add_url_candidate_unseen(cs, url, provider) ==
    Bind(normalize_url(url), LAMBDA normalized :
       IF normalized = NoText THEN cs
       ELSE [candidates |-> Append(cs.candidates, [url |-> normalized, provider |-> provider]),
             seen |-> cs.seen \cup {normalized}])

add_url_candidate(cs, url, provider) ==
    Bind(normalize_url(url), LAMBDA normalized :
       IF normalized = NoText THEN cs
       ELSE IF normalized \in cs.seen THEN cs
       ELSE [candidates |-> Append(cs.candidates, [url |-> normalized, provider |-> provider]),
             seen |-> cs.seen \cup {normalized}])

AddAll(cs, urls, provider) ==
    IF urls = <<>> THEN cs
    ELSE Bind(add_url_candidate(cs, Head(urls), provider), LAMBDA added :
            AddAll(added, Tail(urls), provider))

\* for url, provider in found: add_url_candidate(candidates, seen, url, provider)
RECURSIVE AddCandidates(_, _)
AddCandidates(cs, found) ==
    IF found = <<>> THEN cs
    ELSE Bind(add_url_candidate(cs, Head(found).url, Head(found).provider), LAMBDA added :
            AddCandidates(added, Tail(found)))

Txt_acm == <<"h", "t", "t", "p", "s", ":", "/", "/", "d", "l", ".", "a", "c", "m", ".", "o", "r", "g", "/", "d", "o", "i", "/">>
Txt_download == <<"?", "d", "o", "w", "n", "l", "o", "a", "d", "=", "t", "r", "u", "e">>

add_direct_publisher_candidates(cs, doi) ==
    IF doi = NoText \/ ~is_acm_doi(doi) THEN cs
    ELSE Bind(Txt_acm \o <<"p", "d", "f", "/">> \o quote(doi), LAMBDA pdf :
         Bind(Txt_acm \o <<"e", "p", "d", "f", "/">> \o quote(doi), LAMBDA epdf :
         Bind(add_url_candidate(cs, pdf, "acm_direct_pdf"), LAMBDA c1 :
         Bind(add_url_candidate(c1, pdf \o Txt_download, "acm_direct_pdf"), LAMBDA c2 :
         Bind(add_url_candidate(c2, epdf, "acm_direct_epdf"), LAMBDA c3 :
            add_url_candidate(c3, epdf \o Txt_download, "acm_direct_epdf"))))))

NoCandidates == [candidates |-> <<>>, seen |-> {}]

Txt_arxiv_colon == <<"a", "r", "x", "i", "v", ":">>
Txt_arxiv_org == <<"a", "r", "x", "i", "v", ".", "o", "r", "g">>
Txt_arxiv_pdf == Txt_https \o <<":", "/", "/">> \o Txt_arxiv_org \o <<"/", "p", "d", "f", "/">>

\* the digits of text from position i on
DigitsFrom(text, i) ==
    Bind({j \in i..Len(text) : text[j] \notin Digits}, LAMBDA stops :
       IF stops = {} THEN Len(text) - i + 1
       ELSE (CHOOSE j \in stops : \A k \in stops : j <= k) - i)

\* the length of the match of \d{4}\.\d{4,5}(?:v\d+)? at position i, 0 for none
ArxivIdAt(text, i) ==
    IF ~(i + 8 <= Len(text)
         /\ \A j \in i..(i + 3) : text[j] \in Digits
         /\ text[i + 4] = "."
         /\ \A k \in (i + 5)..(i + 8) : text[k] \in Digits)
    THEN 0
    ELSE Bind(IF i + 9 <= Len(text) /\ text[i + 9] \in Digits THEN 10 ELSE 9, LAMBDA n :
         IF i + n + 1 <= Len(text) /\ text[i + n] \in {"v", "V"}
            /\ text[i + n + 1] \in Digits
         THEN n + 1 + DigitsFrom(text, i + n + 1)
         ELSE n)

\* ARXIV_ID_RE.search(text).group(1), NoText for no match
ArxivIdSearch(text) ==
    Bind({i \in 1..Len(text) : ArxivIdAt(text, i) > 0}, LAMBDA starts :
       IF starts = {} THEN NoText
       ELSE Bind(CHOOSE i \in starts : \A k \in starts : i <= k, LAMBDA i :
               SubSeq(text, i, i + ArxivIdAt(text, i) - 1)))

\* arxiv_pdf_url
arxiv_pdf_url(url_or_id) ==
    Bind(Strip(url_or_id, Whitespace), LAMBDA text :
    IF text = <<>> THEN NoText ELSE
    Bind(urlparse(text), LAMBDA parsed :
    IF parsed.scheme \in {Txt_http, Txt_https}
       /\ ~Contains(Lower(parsed.netloc), Txt_arxiv_org)
    THEN NoText ELSE
    Bind(IF parsed.scheme \in {Txt_http, Txt_https}
            /\ Lower(parsed.netloc) = Txt_arxiv_org
            /\ StartsWith(Lower(parsed.path), <<"/", "a", "b", "s", "/">>)
         THEN Before(DropFirst(parsed.path, 5), {"/"}) ELSE <<>>, LAMBDA abs_id :
    IF abs_id # <<>> THEN Txt_arxiv_pdf \o abs_id \o <<".", "p", "d", "f">> ELSE
    Bind(IF StartsWith(Lower(text), Txt_arxiv_colon) \/ ArxivIdAt(text, 1) = Len(text)
         THEN ArxivIdSearch(text) ELSE NoText, LAMBDA id :
    IF id # NoText THEN Txt_arxiv_pdf \o id \o <<".", "p", "d", "f">> ELSE NoText))))

DoiResolverUrl(doi) == Txt_https \o <<":", "/", "/">> \o Txt_doi_org \o quote(doi)

\* a variant of a provider lookup whose failure empties the list
provider_lookup_dropping(cs, answer, provider) ==
    IF answer.raises THEN NoCandidates
    ELSE IF answer.status # 200 THEN NoCandidates
    ELSE AddAll(cs, SubSeq(answer.urls, 1, answer.read), provider)

\* collect_candidate_urls, lines 632-653, 655-670 and 672-691: one provider
\* lookup inside its try / except Exception.  answer is what client.get
\* gave: raises, or a status with the URLs the JSON body names, of which the
\* first `read` are added before the body proves malformed (all of them for
\* a well-formed body)
provider_lookup(cs, answer, provider) ==
    IF answer.raises THEN cs
    ELSE IF answer.status # 200 THEN cs
    ELSE AddAll(cs, SubSeq(answer.urls, 1, answer.read), provider)

\* collect_candidate_urls; api holds the answer of each provider.  The
\* model's entries have no eprint field.
collect_candidate_urls(entry, doi, unpaywall_email, api) ==
    Bind(Strip(entry.url, Whitespace), LAMBDA entry_url :
    Bind(IF entry_url # NoText /\ arxiv_pdf_url(entry_url) # NoText
         THEN add_url_candidate(NoCandidates, arxiv_pdf_url(entry_url), "entry_arxiv")
         ELSE NoCandidates, LAMBDA c0 :
    Bind(IF entry_url # NoText /\ is_pdf_like_url(entry_url)
         THEN add_url_candidate(c0, entry_url, "entry_url_pdf")
         ELSE c0, LAMBDA c1 :
    Bind(IF entry_url # NoText
         THEN add_url_candidate(c1, entry_url, "entry_url") ELSE c1, LAMBDA c2 :
    IF doi = NoText THEN c2.candidates ELSE
    Bind(DoiResolverUrl(doi), LAMBDA doi_url :
    Bind(add_url_candidate(c2, doi_url, "doi_resolver"), LAMBDA c3 :
    Bind(add_direct_publisher_candidates(c3, doi), LAMBDA c4 :
    Bind(provider_lookup(c4, api.openalex, "openalex"), LAMBDA c5 :
    Bind(provider_lookup(c5, api.semantic_scholar, "semantic_scholar"), LAMBDA c6 :
    Bind(IF unpaywall_email # ""
         THEN provider_lookup(c6, api.unpaywall, "unpaywall") ELSE c6,
         LAMBDA c7 : c7.candidates))))))))))

\* discover_landing_candidates; resp is the answer to GET seed_url.  The
\* model's hosts are not ieeexplore.ieee.org, so no arnumber URL is added.
discover_landing_candidates(seed_url, provider, doi, resp) ==
    IF resp.error THEN <<>> ELSE
    Bind(add_url_candidate(NoCandidates, resp.final_url, provider \o "_landing"), LAMBDA c1 :
    Bind(Lower(urlparse(resp.final_url).netloc), LAMBDA host :
    Bind(IF Contains(host, <<"d", "l", ".", "a", "c", "m", ".", "o", "r", "g">>) /\ is_acm_doi(doi)
         THEN add_direct_publisher_candidates(c1, doi) ELSE c1, LAMBDA c2 :
    Bind(IF resp.html THEN AddAll(c2, resp.html_urls, provider \o "_html") ELSE c2,
         LAMBDA c3 : c3.candidates))))

SampleBytes == 2000000

\* a variant of is_pdf_likely_for_doi that reads the whole body
is_pdf_likely_whole_body(body, final_url, doi) ==
    IF doi = NoText THEN TRUE ELSE
    Bind(normalize_doi(doi), LAMBDA normalized :
    IF normalized = NoText THEN TRUE ELSE
    Bind(DropFirst(normalized, FirstOf(normalized, {"/"})), LAMBDA short :
    Bind(Lower(unquote(final_url)), LAMBDA normalized_url :
    Bind(Lower(body), LAMBDA sample :
       \/ Contains(normalized_url, normalized)
       \/ Len(short) >= 6 /\ Contains(normalized_url, short)
       \/ Contains(sample, normalized)
       \/ Len(short) >= 6 /\ Contains(sample, short)))))

is_pdf_likely_for_doi(body, final_url, doi) ==
    IF doi = NoText THEN TRUE ELSE
    Bind(normalize_doi(doi), LAMBDA normalized :
    IF normalized = NoText THEN TRUE ELSE
    Bind(FirstOf(normalized, {"/"}), LAMBDA slash :
    Bind(IF slash <= Len(normalized) THEN DropFirst(normalized, slash) ELSE normalized,
         LAMBDA short :
    Bind(Lower(unquote(final_url)), LAMBDA normalized_url :
    Bind(Lower(SubSeq(body, 1, Min(Len(body), SampleBytes))), LAMBDA sample :
       IF Contains(normalized_url, normalized) THEN TRUE
       ELSE IF short # <<>> /\ Len(short) >= 6 /\ Contains(normalized_url, short) THEN TRUE
       ELSE IF Contains(sample, normalized) THEN TRUE
       ELSE IF short # <<>> /\ Len(short) >= 6 /\ Contains(sample, short) THEN TRUE
       ELSE FALSE)))))

\* a variant of is_cached_pdf_likely_for_doi that rejects every cached file
cached_pdf_never_likely(fs, pdf_path, source_url, doi) == FALSE

\* is_cached_pdf_likely_for_doi; a file that cannot be opened passes
is_cached_pdf_likely_for_doi(fs, pdf_path, source_url, doi) ==
    IF doi = NoText THEN TRUE
    ELSE IF pdf_path \notin DOMAIN fs THEN TRUE
    ELSE is_pdf_likely_for_doi(SubSeq(fs[pdf_path], 1, Min(Len(fs[pdf_path]), SampleBytes)),
                               source_url, doi)

Txt_pdf_magic == <<"%", "P", "D", "F", "-">>

Txt_application_pdf == <<"a", "p", "p", "l", "i", "c", "a", "t", "i", "o", "n", "/", "p", "d", "f">>
Txt_text_html == <<"t", "e", "x", "t", "/", "h", "t", "m", "l">>

NoFetch == [ok |-> FALSE, body |-> NoText, final_url |-> NoText, content_type |-> NoText]

\* a variant of fetch_pdf_bytes that does not count the bytes it reads
fetch_pdf_bytes_uncounted(resp, max_bytes) ==
    IF resp.error THEN NoFetch
    ELSE IF resp.status # 200 THEN NoFetch
    ELSE IF resp.content_length > max_bytes THEN NoFetch
    ELSE IF resp.body = <<>> THEN NoFetch
    ELSE Bind(Lower(resp.content_type), LAMBDA content_type :
         IF ~Contains(content_type, <<"p", "d", "f">>) /\ ~StartsWith(resp.body, Txt_pdf_magic)
         THEN NoFetch
         ELSE [ok |-> TRUE, body |-> resp.body, final_url |-> resp.final_url,
               content_type |-> content_type])

\* fetch_pdf_bytes; resp is the answer to the streamed GET: error is any
\* exception inside the try block, content_length the Content-Length header
\* when it is digits (0 when it is absent or not digits), content_type the
\* Content-Type header ("" when absent)
fetch_pdf_bytes(resp, max_bytes) ==
    IF resp.error THEN NoFetch
    ELSE IF resp.status # 200 THEN NoFetch
    ELSE IF resp.content_length > max_bytes THEN NoFetch
    ELSE IF Len(resp.body) > max_bytes THEN NoFetch
    ELSE IF resp.body = <<>> THEN NoFetch
    ELSE Bind(Lower(resp.content_type), LAMBDA content_type :
         IF ~Contains(content_type, <<"p", "d", "f">>) /\ ~StartsWith(resp.body, Txt_pdf_magic)
         THEN NoFetch
         ELSE [ok |-> TRUE, body |-> resp.body, final_url |-> resp.final_url,
               content_type |-> content_type])

\* resolve_local_pdf_candidates: the existing files the entry's file field names
resolve_local_pdf_candidates(entry, fs) ==
    IF entry.file # NoPath /\ entry.file \in DOMAIN fs THEN <<entry.file>> ELSE <<>>

------------------------------------------------------------------------------
(* The entries, answers and configurations the model draws its inputs from *)

Doi1 == <<"1", "0", ".", "1", "0", "0", "0", "/", "a", "b", "c", "d", "e", "f">>
Doi1Raw == <<"D", "O", "I", ":", "1", "0", ".", "1", "0", "0", "0", "/", "A", "B", "C", "d", "e", "f">>

UrlPage == <<"h", "t", "t", "p", ":", "/", "/", "h", "/", "p">>
UrlFile == <<"h", "t", "t", "p", ":", "/", "/", "h", "/", "f", ".", "p", "d", "f">>

LocalFile == [dir |-> "local", name |-> <<"a", ".", "p", "d", "f">>]

BodyDoi == Txt_pdf_magic \o Doi1
BodyOther == Txt_pdf_magic \o <<"x">>
BodyHtml == <<"<", "h", "t", "m", "l", ">">>

EntryDoi == [ID |-> "e1", title |-> "T1", doi |-> Doi1Raw, url |-> NoText, file |-> LocalFile]
EntryUrl == [ID |-> "e2", title |-> "", doi |-> NoText, url |-> UrlPage, file |-> NoPath]
EntryBare == [ID |-> "", title |-> "", doi |-> NoText, url |-> NoText, file |-> LocalFile]

EntryPool == {EntryDoi, EntryUrl, EntryBare}

\* an entry without a canonical key that has a candidate URL all the same:
\* its url field is an arXiv identifier
ArxivRaw == <<"a", "r", "X", "i", "v", ":", "2", "1", "0", "1", ".", "0", "0", "0", "0", "1">>
EntryArxiv == [ID |-> "e3", title |-> "T3", doi |-> NoText, url |-> ArxivRaw, file |-> NoPath]

KeylessPool == {EntryArxiv}

UrlFtp == <<"f", "t", "p", ":", "/", "/", "h", "/", "p">>

Batches(pool, n) == [1..n -> pool]

\* browser_assist_wait_sec, in seconds: below both floors, and above them
WaitSecs == {3, 12}

\* the second wait is given only to the configurations that can reach the
\* browser-assist block, the only place that reads it
Configs ==
    {c \in [reuse_cache : BOOLEAN,
            download_enabled : BOOLEAN,
            browser_assist_enabled : BOOLEAN,
            browser_assist_wait_sec : WaitSecs,
            max_bytes : {40},
            unpaywall_email : {""},
            project_id : {"p1"},
            step_id : {"s1"}] :
        c.browser_assist_wait_sec = 3 \/ (c.download_enabled /\ c.browser_assist_enabled)}

\* seconds the requests of one polling round take
FetchTimes == {0, 8}

\* answers to the streamed GET of fetch_pdf_bytes
FetchResponses(url) ==
    {[error |-> TRUE, status |-> 0, content_length |-> 0, body |-> NoText,
      content_type |-> <<>>, final_url |-> url],
     [error |-> FALSE, status |-> 404, content_length |-> 0, body |-> BodyHtml,
      content_type |-> Txt_text_html, final_url |-> url],
     [error |-> FALSE, status |-> 200, content_length |-> 0, body |-> BodyHtml,
      content_type |-> Txt_text_html, final_url |-> url],
     [error |-> FALSE, status |-> 200, content_length |-> 0, body |-> BodyDoi,
      content_type |-> Txt_application_pdf, final_url |-> UrlFile],
     [error |-> FALSE, status |-> 200, content_length |-> 0, body |-> BodyOther,
      content_type |-> <<>>, final_url |-> UrlFile]}
    \cup \* for the arXiv candidate, a final URL that normalize_url rejects
       IF url = arxiv_pdf_url(ArxivRaw)
       THEN {[error |-> FALSE, status |-> 200, content_length |-> 0, body |-> BodyOther,
              content_type |-> Txt_application_pdf, final_url |-> UrlFtp]}
       ELSE {}

\* answers to the GET of discover_landing_candidates
LandingResponses(url) ==
    {[error |-> TRUE, final_url |-> url, html |-> FALSE, html_urls |-> <<>>],
     [error |-> FALSE, final_url |-> url, html |-> FALSE, html_urls |-> <<>>],
     [error |-> FALSE, final_url |-> url, html |-> TRUE, html_urls |-> <<UrlFile>>]}

UrlOther == <<"h", "t", "t", "p", ":", "/", "/", "h", "/", "g", ".", "p", "d", "f">>

\* the answers of a provider's API: the request raises
LookupRaises == [raises |-> TRUE, status |-> 0, urls |-> <<>>, read |-> 0]

\* the API answers 200 with a well-formed body that names the URLs
LookupNames(urls) == [raises |-> FALSE, status |-> 200, urls |-> urls, read |-> Len(urls)]

\* what OpenAlex, Semantic Scholar and Unpaywall answer for a DOI
ApiAnswers ==
    {[openalex |-> LookupRaises, semantic_scholar |-> LookupRaises,
      unpaywall |-> LookupRaises],
     [openalex |-> LookupNames(<<UrlFile>>), semantic_scholar |-> LookupNames(<<UrlFile>>),
      unpaywall |-> LookupRaises]}

------------------------------------------------------------------------------
(* PdfFetchHandler.run: state of a run *)

NoEntry ==
    [entry_key |-> "", title |-> "", doi |-> NoText, canonical_key |-> NoText,
     status |-> "missing", resolved_path |-> NoPath, resolved_source |-> "None",
     resolved_provider |-> "None", resolved_url |-> NoText, resolved_record_id |-> NoText,
     missing_reason |-> "not_found", entry_browser_assist_used |-> FALSE,
     entry_browser_assist_result |-> "None", attempted_providers |-> {},
     candidates_for_entry |-> <<>>, candidate_seen |-> {}, expanded_from |-> {},
     candidate_idx |-> 0,
     \* history: the URLs the loop gave to fetch_pdf_bytes, with whether a
     \* PDF came back, and the URLs it gave to discover_landing_candidates,
     \* in order
     fetched_urls |-> <<>>, landing_seeds |-> <<>>,
     \* wait_window of line 1105, and the frame of resolve_pdf: its deadline
     \* and time.time(), both counted in seconds from the call
     wait_window |-> 0, deadline |-> 0, now |-> 0,
     \* history: page.wait_for_timeout raised and broke the polling loop
     wait_raised |-> FALSE,
     \* history: how the browser-assist attempt of the entry ended
     \* ("unavailable", "raised", "nothing", "pdf"), "None" without an attempt
     assist_ended |-> "None"]

NoConfig ==
    [reuse_cache |-> TRUE, download_enabled |-> TRUE,
     browser_assist_enabled |-> TRUE, browser_assist_wait_sec |-> 3, max_bytes |-> 40,
     unpaywall_email |-> "", project_id |-> "", step_id |-> ""]

\* browser_session and what BrowserAssistSession started: the Playwright
\* runtime (sync_playwright().start()) and the persistent context
\* (launch_persistent_context), each none, running or closed; enabled is the
\* local browser_assist_enabled
NoBrowser == [session |-> FALSE, playwright |-> "none", context |-> "none",
              enabled |-> FALSE]

NoModes == [all |-> <<>>, pdf_only |-> <<>>]

\* the lists run() builds (lines 861-864) and the StepResult it returns
\* (lines 1278-1295); config_pass_mode is config["pass_mode"] as it was given
NoOut == [pdf_found |-> <<>>, pdf_missing |-> <<>>, changes_all |-> <<>>,
          changes_pdf_only |-> <<>>, config_pass_mode |-> "None", pass_mode |-> "None",
          passed |-> <<>>, changes |-> <<>>, mode_outputs |-> NoModes,
          mode_changes |-> NoModes,
          \* history: the calls of save_pdf_index since the run began
          index_saves |-> 0]

\* no call of delete_record since the last run
NoDelete ==
    [called |-> FALSE, record_id |-> <<>>, delete_file |-> FALSE, raised |-> FALSE,
     removed_file |-> FALSE, removed_path |-> NoPath,
     \* history: the call came while a run was at entry index_no
     in_run |-> FALSE, index_no |-> 0]

Entry == input_entries[index_no + 1]

------------------------------------------------------------------------------
(* pdf_library/index.json as text: what json.dump writes and json.load reads *)

\* a Python value with its type, and a JSON value with its kind
Py(t, v) == [t |-> t, v |-> v]

Js(t, v) == [t |-> t, v |-> v]

PyNone == Py("NoneType", <<>>)

\* text that is no JSON document at all
JsInvalid == Js("invalid", <<>>)

\* json.dump: dict -> object, list and tuple -> array, str -> string,
\* int -> number, True/False -> true/false, None -> null
RECURSIVE json_dumps(_)
json_dumps(o) ==
    CASE o.t = "dict" -> Js("object", [k \in DOMAIN o.v |-> json_dumps(o.v[k])])
      [] o.t \in {"list", "tuple"} ->
            Js("array", [i \in DOMAIN o.v |-> json_dumps(o.v[i])])
      [] o.t = "str" -> Js("string", o.v)
      [] o.t = "int" -> Js("number", o.v)
      [] o.t = "bool" -> Js(IF o.v THEN "true" ELSE "false", <<>>)
      [] o.t = "NoneType" -> Js("null", <<>>)

\* json.load of a complete document: object -> dict, array -> list,
\* string -> str, number -> int, true/false -> bool, null -> None
RECURSIVE json_loads(_)
json_loads(j) ==
    CASE j.t = "object" -> Py("dict", [k \in DOMAIN j.v |-> json_loads(j.v[k])])
      [] j.t = "array" -> Py("list", [i \in DOMAIN j.v |-> json_loads(j.v[i])])
      [] j.t = "string" -> Py("str", j.v)
      [] j.t = "number" -> Py("int", j.v)
      [] j.t \in {"true", "false"} -> Py("bool", j.t = "true")
      [] j.t = "null" -> PyNone

\* the pieces json.dump hands to f.write for one document: the opening, one
\* piece for each member, the closing; a scalar is one piece
chunks(doc) ==
    IF doc.t = "object" THEN Cardinality(DOMAIN doc.v) + 2
    ELSE IF doc.t = "array" THEN Len(doc.v) + 2
    ELSE 1

\* a file: absent, or the first upto pieces of a document's text
NoFile == [exists |-> FALSE, doc |-> JsInvalid, upto |-> 0]

Text(doc) == [exists |-> TRUE, doc |-> doc, upto |-> chunks(doc)]

\* open(index_file, "w"): the file exists and is empty
open_w(doc) == [exists |-> TRUE, doc |-> doc, upto |-> 0]

\* f.write of the next piece
write_chunk(file) == [file EXCEPT !.upto = @ + 1]

\* json.load(f): a text that is no document, or that stops before the
\* document's end, raises
json_load(file) ==
    IF file.doc.t = "invalid" \/ file.upto < chunks(file.doc)
    THEN [raised |-> TRUE, value |-> PyNone]
    ELSE [raised |-> FALSE, value |-> json_loads(file.doc)]

NoRecords == Py("dict", [k \in {} |-> PyNone])

empty_index ==
    Py("dict", [k \in {"version", "records"} |->
                  IF k = "version" THEN Py("str", "1.0") ELSE NoRecords])

\* data.get(name)
DictGet(d, name) == IF name \in DOMAIN d.v THEN d.v[name] ELSE PyNone

\* data[name] = value
DictSet(d, name, value) ==
    Py("dict", [k \in DOMAIN d.v \cup {name} |-> IF k = name THEN value ELSE d.v[k]])

\* a variant of the test of records that returns the parsed object as it is
with_records_as_parsed(data) == data

\* if not isinstance(records, dict): data["records"] = {}
with_records(data) ==
    IF DictGet(data, "records").t # "dict" THEN DictSet(data, "records", NoRecords)
    ELSE data

\* if "version" not in data: data["version"] = "1.0"
with_version(data) ==
    IF "version" \notin DOMAIN data.v THEN DictSet(data, "version", Py("str", "1.0"))
    ELSE data

\* load_pdf_index on the file's text: what it returns, and whether it raised
read_pdf_index(file) ==
    IF ~file.exists THEN [raised |-> FALSE, data |-> empty_index]
    ELSE Bind(json_load(file), LAMBDA parsed :
            IF parsed.raised THEN [raised |-> FALSE, data |-> empty_index]
            ELSE IF parsed.value.t # "dict" THEN [raised |-> FALSE, data |-> empty_index]
            ELSE [raised |-> FALSE, data |-> with_version(with_records(parsed.value))])

\* the value or None
Optional(absent, t, v) == IF absent THEN PyNone ELSE Py(t, v)

\* a variant of the reference lists that holds them as tuples
py_references_as_tuple(items) == Py("tuple", [i \in DOMAIN items |-> Py("str", items[i])])

\* project_ids, step_ids, entry_keys: lists of str
py_references(items) == Py("list", [i \in DOMAIN items |-> Py("str", items[i])])

RecordFields ==
    {"id", "key", "doi", "year", "database", "title", "status", "pdf_path",
     "managed_file", "source", "source_url", "provider", "content_type", "size_bytes",
     "project_ids", "step_ids", "entry_keys", "missing_reason", "failure_count",
     "created_at", "updated_at", "last_checked_at"}

\* a record as the Python dict the library holds, each field with the type
\* the library gives it
py_record(r) ==
    Py("dict", [f \in RecordFields |->
        CASE f = "id" -> Py("str", r.id)
          [] f = "key" -> Py("str", r.key)
          [] f = "doi" -> Optional(r.doi = NoText, "str", r.doi)
          [] f = "year" -> Optional(r.year = "", "str", r.year)
          [] f = "database" -> Optional(r.database = "", "str", r.database)
          [] f = "title" -> Py("str", r.title)
          [] f = "status" -> Py("str", r.status)
          [] f = "pdf_path" -> Optional(r.pdf_path = NoPath, "str", r.pdf_path)
          [] f = "managed_file" -> Py("bool", r.managed_file)
          [] f = "source" -> Optional(r.source = "None", "str", r.source)
          [] f = "source_url" -> Optional(r.source_url = NoText, "str", r.source_url)
          [] f = "provider" -> Optional(r.provider = "None", "str", r.provider)
          [] f = "content_type" -> Optional(r.content_type = NoText, "str", r.content_type)
          [] f = "size_bytes" -> Optional(r.size_bytes = NoSize, "int", r.size_bytes)
          [] f = "project_ids" -> py_references(r.project_ids)
          [] f = "step_ids" -> py_references(r.step_ids)
          [] f = "entry_keys" -> py_references(r.entry_keys)
          [] f = "missing_reason" ->
                Optional(r.missing_reason = "None", "str", r.missing_reason)
          [] f = "failure_count" -> Py("int", r.failure_count)
          [] f = "created_at" -> Py("str", r.created_at)
          [] f = "updated_at" -> Py("str", r.updated_at)
          [] f = "last_checked_at" -> Py("str", r.last_checked_at)])

\* the index a run or the library holds: version "1.0" and the records
py_index(records) ==
    Py("dict", [k \in {"version", "records"} |->
                  IF k = "version" THEN Py("str", "1.0")
                  ELSE Py("dict", [key \in DOMAIN records |-> py_record(records[key])])])

\* the index file, its writer and its last reader
NoStore ==
    [file |-> NoFile,               \* pdf_library/index.json
     writer |-> "idle",             \* save_pdf_index: idle, writing, interrupted
     previous |-> empty_index,      \* the index of the last save that finished
     saving |-> empty_index,        \* the index of the save under way
     foreign |-> FALSE,             \* the file was put there by something else
     observed |-> FALSE,            \* load_pdf_index was called
     read |-> NoFile,               \* what the last load found
     loaded |-> [raised |-> FALSE, data |-> empty_index]]

------------------------------------------------------------------------------

\* the state after construction, but for the helper call
InitState ==
    /\ disk_index = EmptyRecords
    /\ files = [p \in {} |-> NoText]
    /\ index = EmptyRecords
    /\ clock = 0
    /\ pc = "idle"
    /\ cfg = NoConfig
    /\ input_entries = <<>>
    /\ index_no = 0
    /\ ent = NoEntry
    /\ browser = NoBrowser
    /\ out = NoOut
    /\ result = "None"
    /\ runs = 0
    /\ trace = <<>>
    /\ lib_calls = [k \in {} |-> 0]
    /\ deleted = NoDelete
    /\ store = NoStore

NoCall == [fn |-> "none", args |-> <<>>, out |-> <<>>]

Init == InitState /\ call = NoCall

------------------------------------------------------------------------------
(* PdfFetchHandler.run: the steps of a run *)

\* a variant of the save that writes the index as it was loaded
save_pdf_index_as_loaded(in_memory) == disk_index

\* load_pdf_index / save_pdf_index on a well-formed index file: json.load and
\* json.dump keep the records (strings, numbers, booleans, null and lists)
\* a variant of save_pdf_index that writes the found records only
save_found_records_only(in_memory) ==
    [k \in {q \in DOMAIN in_memory : in_memory[q].status = "found"} |-> in_memory[k]]

load_pdf_index(on_disk) == on_disk

save_pdf_index(in_memory) == in_memory

\* the user's own PDF (an entry's file field names it) appears or goes away
UserFile ==
    /\ pc = "idle"
    /\ \/ /\ LocalFile \in DOMAIN files
          /\ files' = [p \in DOMAIN files \ {LocalFile} |-> files[p]]
       \/ /\ LocalFile \notin DOMAIN files
          /\ \E body \in {BodyDoi, BodyOther} :
                files' = [p \in DOMAIN files \cup {LocalFile} |->
                            IF p = LocalFile THEN body ELSE files[p]]
    /\ UNCHANGED <<disk_index, index, clock, pc, cfg, input_entries, index_no,
                   ent, browser, out, result, runs, trace, lib_calls, deleted, store, call>>

\* run(), lines 835-878, on a batch of entries of the pool, under one of
\* the configurations
StartRunFrom(pool, configs) ==
    /\ pc = "idle"
    /\ \E n \in 1..(MaxEntries - runs) :
         \E c \in configs, batch \in Batches(pool, n) :
           /\ cfg' = c
           /\ input_entries' = batch
           /\ browser' = [NoBrowser EXCEPT !.enabled = c.browser_assist_enabled]
           /\ runs' = runs + n
    /\ index' = load_pdf_index(disk_index)
    /\ index_no' = 0
    /\ ent' = NoEntry
    /\ out' = NoOut
    /\ result' = "None"
    /\ trace' = <<>>
    /\ pc' = "cache"
    /\ deleted' = NoDelete
    /\ UNCHANGED <<store, call>>
    /\ UNCHANGED <<disk_index, files, clock, lib_calls>>

StartRun == StartRunFrom(EntryPool, Configs)

FoundArgs(key, title, pdf_path, managed_file, source, source_url, provider, content_type, entry_key) ==
    [key |-> key, title |-> title, year |-> "", database |-> "", pdf_path |-> pdf_path,
     managed_file |-> managed_file, source |-> source, source_url |-> source_url,
     provider |-> provider, content_type |-> content_type,
     project_id |-> cfg.project_id, step_id |-> cfg.step_id, entry_key |-> entry_key]

\* a variant of found_locals that names the direct download whatever succeeded
found_locals_download(e, path, source, provider, url, record_id) ==
    [e EXCEPT
        !.status = "found",
        !.resolved_path = path,
        !.resolved_source = "download",
        !.resolved_provider = provider,
        !.resolved_url = url,
        !.resolved_record_id = record_id]

\* run(): status = "found" and the resolved_* locals, as assigned after each
\* strategy that succeeds (lines 927-932, 956-959, 1057-1062, 1156-1161)
found_locals(e, path, source, provider, url, record_id) ==
    [e EXCEPT
        !.status = "found",
        !.resolved_path = path,
        !.resolved_source = source,
        !.resolved_provider = provider,
        !.resolved_url = url,
        !.resolved_record_id = record_id]

\* run(), lines 883-950: the entry's locals, then cache reuse
CacheStep ==
    /\ pc = "cache"
    /\ \E entry \in {Entry} :
       \E entry_key \in {IF entry.ID # "" THEN entry.ID ELSE "row_" \o ToString(index_no)},
          title \in {entry.title},
          doi \in {normalize_doi(entry.doi)},
          key0 \in {canonical_key_for_entry(entry)} :
       \E canonical_key \in {IF doi # NoText THEN Txt_doi_colon \o doi ELSE key0} :
       \E looked \in {canonical_key # NoText /\ cfg.reuse_cache} :
       \E hit \in {/\ looked
                   /\ canonical_key \in DOMAIN index
                   /\ index[canonical_key].status = "found"
                   /\ index[canonical_key].pdf_path # NoPath
                   /\ index[canonical_key].pdf_path \in DOMAIN files
                   /\ is_cached_pdf_likely_for_doi(files, index[canonical_key].pdf_path,
                                                   index[canonical_key].source_url, doi)},
          base \in {[NoEntry EXCEPT !.entry_key = entry_key, !.title = title, !.doi = doi,
                                    !.canonical_key = canonical_key]} :
          /\ trace' = IF looked THEN <<"cache">> ELSE <<>>
          /\ IF hit
             THEN \E cached_record \in {index[canonical_key]} :
                  /\ index' = mark_record_found(index,
                        FoundArgs(canonical_key, title, cached_record.pdf_path,
                                  cached_record.managed_file, "cache",
                                  cached_record.source_url, cached_record.provider,
                                  cached_record.content_type, entry_key),
                        clock, files)
                  /\ ent' = found_locals(base, cached_record.pdf_path, "cache",
                                          cached_record.provider, cached_record.source_url,
                                          cached_record.id)
             ELSE /\ index' = index
                  /\ ent' = base
    /\ pc' = "local"
    /\ UNCHANGED <<disk_index, files, clock, cfg, input_entries, index_no,
                   browser, out, result, runs, lib_calls, deleted, store, call>>

\* run(), lines 952-976: local file discovery
LocalStep ==
    /\ pc = "local"
    /\ \E local_paths \in {resolve_local_pdf_candidates(Entry, files)} :
          IF ent.status # "found"
          THEN /\ trace' = Append(trace, "local")
               /\ IF local_paths # <<>>
                  THEN /\ ent' = found_locals(ent, local_paths[1], "local_file", "local",
                                               ent.resolved_url,
                                               IF ent.canonical_key # NoText
                                               THEN key_to_record_id(ent.canonical_key)
                                               ELSE ent.resolved_record_id)
                       /\ index' = IF ent.canonical_key # NoText
                                   THEN mark_record_found(index,
                                            FoundArgs(ent.canonical_key, ent.title,
                                                      local_paths[1], FALSE, "local_file",
                                                      NoText, "local", Txt_application_pdf,
                                                      ent.entry_key),
                                            clock, files)
                                   ELSE index
                  ELSE UNCHANGED <<ent, index>>
          ELSE UNCHANGED <<ent, index, trace>>
    /\ pc' = "collect"
    /\ UNCHANGED <<disk_index, files, clock, cfg, input_entries, index_no,
                   browser, out, result, runs, lib_calls, deleted, store, call>>

\* run(), lines 978-994: candidate generation
CollectStep ==
    /\ pc = "collect"
    /\ IF ent.status # "found" /\ cfg.download_enabled
       THEN \E api \in ApiAnswers :
            \E cands \in {collect_candidate_urls(Entry, ent.doi, cfg.unpaywall_email, api)} :
                 /\ ent' = [ent EXCEPT
                        !.candidates_for_entry = cands,
                        !.candidate_seen = {cands[i].url : i \in 1..Len(cands)},
                        !.expanded_from = {},
                        !.candidate_idx = 0]
                 /\ trace' = Append(trace, "collect")
                 /\ pc' = "download"
       ELSE /\ pc' = "browser_open"
            /\ UNCHANGED <<ent, trace>>
    /\ UNCHANGED <<disk_index, files, index, clock, cfg, input_entries, index_no,
                   browser, out, result, runs, lib_calls, deleted, store, call>>

\* a variant of line 999 that leaves the position where it was
candidate_idx_kept(candidate_idx) == candidate_idx

\* run(), line 999: candidate_idx += 1
candidate_idx_advanced(candidate_idx) == candidate_idx + 1

\* open(target_path, "wb"); f.write(body)
WriteFile(fs, path, body) ==
    [p \in DOMAIN fs \cup {path} |-> IF p = path THEN body ELSE fs[p]]

\* a variant that leaves the key as it is
SynthesizedKey_as_given(canonical_key, final_url, entry_key) == canonical_key

\* run(), lines 1031-1036 and 1129-1134: the key of an entry that has none
SynthesizedKey(canonical_key, final_url, entry_key) ==
    IF canonical_key # NoText THEN canonical_key
    ELSE IF normalize_url(final_url) # NoText THEN Txt_url_colon \o normalize_url(final_url)
    ELSE <<"e", "n", "t", "r", "y", ":">> \o <<entry_key>>

\* run(), lines 1038-1064 and 1136-1163: store the bytes, mark the record found
Persist(fetched, provider, source, write_ok) ==
    \E key \in {SynthesizedKey(ent.canonical_key, fetched.final_url, ent.entry_key)} :
    \E target_path \in {managed_pdf_path_for_key(key)} :
       IF write_ok
       THEN /\ files' = WriteFile(files, target_path, fetched.body)
            /\ index' = mark_record_found(index,
                    FoundArgs(key, ent.title, target_path, TRUE, source, fetched.final_url,
                              provider, fetched.content_type, ent.entry_key),
                    clock, files')
            /\ ent' = [found_locals(ent, target_path, source, provider,
                                     fetched.final_url, key_to_record_id(key)) EXCEPT
                    !.canonical_key = key,
                    !.entry_browser_assist_result =
                        IF source = "browser_assist" THEN "resolved" ELSE @,
                    !.assist_ended = IF source = "browser_assist" THEN "pdf" ELSE @,
                    !.attempted_providers =
                        IF source = "download" THEN @ \cup {provider} ELSE @,
                    !.candidate_idx =
                        IF source = "download" THEN candidate_idx_advanced(@) ELSE @,
                    !.fetched_urls =
                        IF source = "download"
                        THEN Append(@, [url |-> ent.candidates_for_entry[ent.candidate_idx + 1].url,
                                         ok |-> TRUE])
                        ELSE @]
            /\ UNCHANGED result
       ELSE \* the write raises: the file was opened (and truncated) or not
            /\ \E opened \in BOOLEAN :
                 files' = IF opened THEN WriteFile(files, target_path, NoText) ELSE files
            /\ index' = index
            /\ ent' = [ent EXCEPT
                    !.canonical_key = key,
                    !.candidate_idx =
                        IF source = "download" THEN candidate_idx_advanced(@) ELSE @,
                    !.fetched_urls =
                        IF source = "download"
                        THEN Append(@, [url |-> ent.candidates_for_entry[ent.candidate_idx + 1].url,
                                         ok |-> TRUE])
                        ELSE @]
            /\ result' = "raising"

\* run(), lines 996-1064: one iteration of the loop over the candidates
DownloadStep ==
    /\ pc = "download"
    /\ IF ent.candidate_idx < Len(ent.candidates_for_entry)
       THEN \E cand \in {ent.candidates_for_entry[ent.candidate_idx + 1]} :
               \E resp \in FetchResponses(cand.url) :
                 \E fetched \in {fetch_pdf_bytes(resp, cfg.max_bytes)} :
                    IF ~fetched.ok
                    THEN /\ IF cand.url \in ent.expanded_from
                            THEN /\ ent' = [ent EXCEPT
                                        !.attempted_providers = @ \cup {cand.provider},
                                        !.candidate_idx = candidate_idx_advanced(@),
                                        !.fetched_urls = Append(@, [url |-> cand.url, ok |-> FALSE])]
                                 /\ trace' = Append(trace, "fetch")
                            ELSE \E landing \in LandingResponses(cand.url) :
                                   \E discovered \in
                                          {discover_landing_candidates(cand.url, cand.provider,
                                                                       ent.doi, landing)} :
                                   \E grown \in
                                          {AddCandidates([candidates |-> ent.candidates_for_entry,
                                                          seen |-> ent.candidate_seen],
                                                         discovered)} :
                                      /\ ent' = [ent EXCEPT
                                            !.attempted_providers = @ \cup {cand.provider},
                                            !.candidate_idx = candidate_idx_advanced(@),
                                            !.fetched_urls = Append(@, [url |-> cand.url, ok |-> FALSE]),
                                            !.landing_seeds = Append(@, cand.url),
                                            !.expanded_from = @ \cup {cand.url},
                                            !.candidates_for_entry = grown.candidates,
                                            !.candidate_seen = grown.seen]
                                      /\ trace' = trace \o <<"fetch", "discover">>
                         /\ pc' = "download"
                         /\ UNCHANGED <<files, index, result>>
                    ELSE \E write_ok \in BOOLEAN :
                           /\ Persist(fetched, cand.provider, "download", write_ok)
                           /\ trace' = Append(trace, "fetch")
                           /\ pc' = IF write_ok THEN "browser_open" ELSE "finally"
       ELSE /\ pc' = "browser_open"
            /\ UNCHANGED <<files, index, ent, result, trace>>
    /\ UNCHANGED <<disk_index, clock, cfg, input_entries, index_no, browser, out,
                   runs, lib_calls, deleted, store, call>>

\* BrowserAssistSession.__init__, lines 324-347: what was started when it
\* returned ("ok") or raised
SessionStarts ==
    {[how |-> "ok", playwright |-> "running", context |-> "running"],
     [how |-> "not_installed", playwright |-> "none", context |-> "none"],
     [how |-> "launch_failed", playwright |-> "running", context |-> "none"],
     [how |-> "page_failed", playwright |-> "running", context |-> "running"]}

\* a variant of the condition that does not ask for download_enabled
browser_assist_wanted_without_download(status, download_enabled, enabled, doi, entry_url) ==
    /\ status # "found"
    /\ enabled
    /\ (doi # NoText \/ entry_url # NoText)

\* run(), lines 1067-1072: the condition of the browser-assist block
browser_assist_wanted(status, download_enabled, enabled, doi, entry_url) ==
    /\ status # "found"
    /\ download_enabled
    /\ enabled
    /\ (doi # NoText \/ entry_url # NoText)

\* a variant of the test of line 1084 that finds no session every time
session_is_none_always(b) == TRUE

\* run(), line 1084: `if browser_session is None`
session_is_none(b) == ~b.session

\* a variant of the except clause that leaves browser assist enabled
session_unavailable_still_enabled(b, start) ==
    [b EXCEPT !.playwright = start.playwright, !.context = start.context]

\* run(), lines 1093-1096: the construction raised; browser_session stays
\* None and browser_assist_enabled is switched off for the rest of the run
session_unavailable(b, start) ==
    [b EXCEPT !.enabled = FALSE, !.playwright = start.playwright, !.context = start.context]

\* run(), lines 1066-1099: the browser-assist condition, the lazy session
BrowserOpen ==
    /\ pc = "browser_open"
    /\ \E entry_url \in {Strip(Entry.url, Whitespace)} :
          IF browser_assist_wanted(ent.status, cfg.download_enabled, browser.enabled,
                                   ent.doi, entry_url)
          THEN /\ IF session_is_none(browser)
                  THEN \E start \in SessionStarts :
                         /\ trace' = Append(trace, "session")
                         /\ IF start.how = "ok"
                            THEN /\ browser' = [browser EXCEPT
                                        !.session = TRUE,
                                        !.playwright = start.playwright,
                                        !.context = start.context]
                                 /\ ent' = [ent EXCEPT !.entry_browser_assist_used = TRUE]
                            ELSE /\ browser' = session_unavailable(browser, start)
                                 /\ ent' = [ent EXCEPT
                                        !.entry_browser_assist_used = TRUE,
                                        !.missing_reason = "browser_assist_unavailable",
                                        !.entry_browser_assist_result = "unavailable",
                                        !.assist_ended = "unavailable"]
                  ELSE /\ ent' = [ent EXCEPT !.entry_browser_assist_used = TRUE]
                       /\ UNCHANGED <<browser, trace>>
               /\ pc' = "browser_resolve"
          ELSE /\ pc' = "finish"
               /\ UNCHANGED <<ent, browser, trace>>
    /\ UNCHANGED <<disk_index, files, index, clock, cfg, input_entries, index_no,
                   out, result, runs, lib_calls, deleted, store, call>>

\* what the session's requests fetch during one resolve_pdf call, in queue order
BrowserAnswers ==
    {<<>>,
     <<[error |-> FALSE, status |-> 200, content_length |-> 0, body |-> BodyOther,
        content_type |-> Txt_application_pdf, final_url |-> UrlFile]>>,
     <<[error |-> FALSE, status |-> 200, content_length |-> 0, body |-> BodyOther,
        content_type |-> Txt_application_pdf, final_url |-> UrlFile],
       [error |-> FALSE, status |-> 200, content_length |-> 0, body |-> BodyDoi,
        content_type |-> Txt_application_pdf, final_url |-> UrlFile]>>}

\* BrowserAssistSession.resolve_pdf, lines 447-518: the first fetched
\* candidate that is a PDF and passes is_pdf_likely_for_doi, else None
resolve_pdf(doi, entry_url, initial_candidates, answers, max_bytes) ==
    LET seed_url ==
            IF entry_url # NoText THEN entry_url
            ELSE IF doi # NoText THEN DoiResolverUrl(doi)
            ELSE IF initial_candidates # <<>> THEN initial_candidates[1].url
            ELSE NoText
        good == {i \in 1..Len(answers) :
                    /\ fetch_pdf_bytes(answers[i], max_bytes).ok
                    /\ is_pdf_likely_for_doi(answers[i].body, answers[i].final_url, doi)}
    IN IF seed_url = NoText \/ good = {} THEN NoFetch
       ELSE fetch_pdf_bytes(answers[CHOOSE i \in good : \A j \in good : i <= j], max_bytes)

\* a variant of the else branch that leaves the reason as it was
assist_unresolved_locals_unnamed(e) ==
    [e EXCEPT !.entry_browser_assist_result = IF @ = "None" THEN "unresolved" ELSE @]

\* run(), lines 1164-1168: resolve_pdf gave nothing
assist_unresolved_locals(e) ==
    [e EXCEPT
       !.missing_reason = IF @ = "not_found" THEN "browser_assist_unresolved" ELSE @,
       !.entry_browser_assist_result = IF @ = "None" THEN "unresolved" ELSE @]

\* a variant of line 1105 that gives the entries after the first ten seconds
wait_window_short_after_first(browser_assist_wait_sec) ==
    IF index_no > 0 THEN 10 ELSE Max(browser_assist_wait_sec, 10)

\* run(), line 1105: wait_window = max(browser_assist_wait_sec, 10.0)
wait_window(browser_assist_wait_sec) == Max(browser_assist_wait_sec, 10)

\* resolve_pdf, line 485: deadline = time.time() + max(wait_sec, 5.0)
resolve_deadline(now, wait_sec) == now + Max(wait_sec, 5)

\* resolve_pdf, line 513: page.wait_for_timeout(min(2000, int(remaining * 1000)))
poll_wait(remaining) == Min(2, remaining)

\* run(), lines 1101-1114, and resolve_pdf, lines 455-485: the call, up to
\* the polling loop
BrowserResolve ==
    /\ pc = "browser_resolve"
    /\ IF browser.session /\ ent.status # "found"
       THEN \E window \in {wait_window(cfg.browser_assist_wait_sec)} :
               /\ ent' = [ent EXCEPT
                      !.wait_window = window,
                      !.deadline = resolve_deadline(0, window),
                      !.now = 0]
               /\ trace' = Append(trace, "resolve")
               /\ pc' = "browser_poll"
       ELSE /\ pc' = "finish"
            /\ UNCHANGED <<ent, trace>>
    /\ UNCHANGED <<disk_index, files, index, clock, cfg, input_entries, index_no,
                   browser, out, result, runs, lib_calls, deleted, store, call>>

\* resolve_pdf, lines 486-518, one round of the polling loop, and what run()
\* does with the outcome (lines 1115-1168)
BrowserPoll ==
    /\ pc = "browser_poll"
    /\ IF ent.now < ent.deadline
       THEN \/ \* a request of the round raises, and resolve_pdf with it
               /\ ent' = [ent EXCEPT
                      !.missing_reason = "browser_assist_error",
                      !.entry_browser_assist_result = "error",
                      !.assist_ended = "raised"]
               /\ pc' = "finish"
               /\ UNCHANGED <<files, index, result>>
            \/ \E answers \in BrowserAnswers, fetch_time \in FetchTimes :
                 \E assisted \in {resolve_pdf(ent.doi, Strip(Entry.url, Whitespace),
                                             ent.candidates_for_entry, answers, cfg.max_bytes)},
                    remaining \in {ent.deadline - (ent.now + fetch_time)} :
                    IF assisted.ok
                    THEN \E write_ok \in BOOLEAN :
                           /\ Persist(assisted, "browser_page", "browser_assist", write_ok)
                           /\ pc' = IF write_ok THEN "finish" ELSE "finally"
                    ELSE /\ UNCHANGED <<files, index, result>>
                         /\ IF remaining <= 0
                            THEN /\ ent' = [assist_unresolved_locals(ent) EXCEPT
                                              !.now = ent.now + fetch_time,
                                              !.assist_ended = "nothing"]
                                 /\ pc' = "finish"
                            ELSE \/ \* page.wait_for_timeout raises: break
                                    /\ ent' = [assist_unresolved_locals(ent) EXCEPT
                                                 !.now = ent.now + fetch_time,
                                                 !.wait_raised = TRUE,
                                                 !.assist_ended = "nothing"]
                                    /\ pc' = "finish"
                                 \/ /\ ent' = [ent EXCEPT
                                          !.now = ent.now + fetch_time + poll_wait(remaining)]
                                    /\ pc' = "browser_poll"
       ELSE /\ ent' = [assist_unresolved_locals(ent) EXCEPT !.assist_ended = "nothing"]
            /\ pc' = "finish"
            /\ UNCHANGED <<files, index, result>>
    /\ UNCHANGED <<disk_index, clock, cfg, input_entries, index_no, browser, out,
                   runs, trace, lib_calls, deleted, store, call>>

\* a variant that passes the reason the entry started with
MissingArgs_initial_reason(key, title, reason, entry_key) ==
    [key |-> key, title |-> title, year |-> "", database |-> "", reason |-> "not_found",
     project_id |-> cfg.project_id, step_id |-> cfg.step_id, entry_key |-> entry_key]

\* run(), lines 1174-1182: the arguments of mark_record_missing
MissingArgs(key, title, reason, entry_key) ==
    [key |-> key, title |-> title, year |-> "", database |-> "", reason |-> reason,
     project_id |-> cfg.project_id, step_id |-> cfg.step_id, entry_key |-> entry_key]

\* run(), lines 1217-1224 and 1235-1242: the change of the entry under mode all
change_all(entry_key, found, details) ==
    [key |-> entry_key, action |-> "keep",
     reason |-> IF found THEN "pdf_available" ELSE "pdf_missing_passed",
     details |-> details]

\* a variant that keeps the entries without a PDF under mode pdf_only too
change_pdf_only_keeping(entry_key, found, details) ==
    [key |-> entry_key, action |-> "keep",
     reason |-> IF found THEN "pdf_available" ELSE "pdf_missing",
     details |-> details]

\* run(), lines 1225-1232 and 1243-1250: the change under mode pdf_only
change_pdf_only(entry_key, found, details) ==
    [key |-> entry_key, action |-> IF found THEN "keep" ELSE "remove",
     reason |-> IF found THEN "pdf_available" ELSE "pdf_missing",
     details |-> details]

\* run(), lines 1170-1250: the missing record, the details and the partitions
\* (of the details, the fields that name the outcome; the provider, the source
\* URL and the counts of candidates are left out)
FinishEntry ==
    /\ pc = "finish"
    /\ \E missing_reason \in
               {IF ent.status # "found" /\ ent.missing_reason = "not_found"
                THEN "pdf_not_resolved" ELSE ent.missing_reason} :
       LET details ==
               [pdf_status |-> ent.status,
                pdf_path |-> ent.resolved_path,
                source |-> ent.resolved_source,
                pdf_record_id |-> ent.resolved_record_id,
                doi |-> ent.doi,
                cache_key |-> ent.canonical_key,
                browser_assist_used |-> ent.entry_browser_assist_used,
                browser_assist_result |-> ent.entry_browser_assist_result,
                missing_reason |-> IF ent.status = "found" THEN "None" ELSE missing_reason]
           found == ent.status = "found"
       IN /\ index' = IF ~found /\ ent.canonical_key # NoText
                      THEN mark_record_missing(index,
                               MissingArgs(ent.canonical_key, ent.title, missing_reason,
                                           ent.entry_key),
                               clock)
                      ELSE index
          /\ out' = [out EXCEPT
                     !.pdf_found = IF found THEN Append(@, Entry) ELSE @,
                     !.pdf_missing = IF found THEN @ ELSE Append(@, Entry),
                     !.changes_all =
                         Append(out.changes_all, change_all(ent.entry_key, found, details)),
                     !.changes_pdf_only =
                         Append(out.changes_pdf_only,
                                change_pdf_only(ent.entry_key, found, details))]
    /\ index_no' = index_no + 1
    /\ pc' = IF index_no + 1 < Len(input_entries) THEN "cache" ELSE "finally"
    /\ ent' = NoEntry
    /\ trace' = <<>>
    /\ UNCHANGED <<disk_index, files, clock, cfg, input_entries, browser, result,
                   runs, lib_calls, deleted, store, call>>

\* BrowserAssistSession.close, lines 349-357
close(b) == [b EXCEPT !.context = "closed", !.playwright = "closed"]

\* run(), lines 1266-1268: the finally clause
Finally ==
    /\ pc = "finally"
    /\ browser' = IF browser.session THEN close(browser) ELSE browser
    /\ IF result = "raising"
       THEN /\ pc' = "done"
            /\ result' = "raised"
       ELSE /\ pc' = "save"
            /\ UNCHANGED result
    /\ UNCHANGED <<disk_index, files, index, clock, cfg, input_entries, index_no,
                   ent, out, runs, trace, lib_calls, deleted, store, call>>

\* config.get("pass_mode", "all"), stripped
PassModes == {"all", "pdf_only", "other"}

\* a variant that takes the configured mode as it is
normalize_pass_mode_as_given(raw_mode) == raw_mode

\* run(), lines 835-837: any mode other than all and pdf_only is all
normalize_pass_mode(raw_mode) ==
    IF raw_mode \notin {"all", "pdf_only"} THEN "all" ELSE raw_mode

\* run(), lines 1270-1313: the index is written, the result returned.
\* pass_mode (lines 835-837) is drawn here, where it is first used.
Save ==
    /\ pc = "save"
    /\ disk_index' = save_pdf_index(index)
    /\ \E raw_mode \in PassModes :
         \E pass_mode \in {normalize_pass_mode(raw_mode)} :
            out' = [out EXCEPT
                !.index_saves = @ + 1,
                !.config_pass_mode = raw_mode,
                !.pass_mode = pass_mode,
                !.passed = IF pass_mode = "all" THEN input_entries ELSE out.pdf_found,
                !.changes = IF pass_mode = "all" THEN out.changes_all
                            ELSE out.changes_pdf_only,
                !.mode_outputs = [all |-> input_entries, pdf_only |-> out.pdf_found],
                !.mode_changes = [all |-> out.changes_all,
                                  pdf_only |-> out.changes_pdf_only]]
    /\ pc' = "done"
    /\ result' = "returned"
    /\ UNCHANGED <<files, index, clock, cfg, input_entries, index_no, ent, browser,
                   runs, trace, lib_calls, deleted, store, call>>

\* the caller has the result; the locals of the run are gone
Idle ==
    /\ pc = "done"
    /\ pc' = "idle"
    /\ index' = EmptyRecords
    /\ cfg' = NoConfig
    /\ input_entries' = <<>>
    /\ index_no' = 0
    /\ ent' = NoEntry
    /\ browser' = NoBrowser
    /\ out' = NoOut
    /\ result' = "None"
    /\ trace' = <<>>
    /\ UNCHANGED <<disk_index, files, clock, runs, lib_calls, deleted, store, call>>

\* a variant that unlinks the file of any record, managed or not
unlinks_file_unmanaged(record, fs, delete_file) ==
    /\ delete_file
    /\ record.pdf_path # NoPath
    /\ record.pdf_path \in DOMAIN fs

\* delete_record, lines 335-338: the file is unlinked if asked for, named,
\* managed and there
unlinks_file(record, fs, delete_file) ==
    /\ delete_file
    /\ record.pdf_path # NoPath
    /\ record.managed_file
    /\ record.pdf_path \in DOMAIN fs

\* a variant of delete_record that unlinks the file and keeps the record
delete_record_keeping_record(on_disk, fs, record_id, delete_file) ==
    LET loaded == load_pdf_index(on_disk)
        hit == get_record_by_id(loaded, record_id)
        record == loaded[CHOOSE k \in hit : TRUE]
        unlink == unlinks_file(record, fs, delete_file)
    IN IF hit = {}
       THEN [raised |-> TRUE, removed_file |-> FALSE, removed_path |-> NoPath,
             index |-> on_disk, files |-> fs]
       ELSE [raised |-> FALSE,
             removed_file |-> unlink,
             removed_path |-> IF unlink THEN record.pdf_path ELSE NoPath,
             index |-> on_disk,
             files |-> IF unlink
                       THEN [p \in DOMAIN fs \ {record.pdf_path} |-> fs[p]]
                       ELSE fs]

\* delete_record: the index file and the files after the call
delete_record(on_disk, fs, record_id, delete_file) ==
    LET loaded == load_pdf_index(on_disk)
        hit == get_record_by_id(loaded, record_id)
        key == CHOOSE k \in hit : TRUE
        record == loaded[key]
        unlink == unlinks_file(record, fs, delete_file)
    IN IF hit = {}
       THEN [raised |-> TRUE, removed_file |-> FALSE, removed_path |-> NoPath,
             index |-> on_disk, files |-> fs]
       ELSE [raised |-> FALSE,
             removed_file |-> unlink,
             removed_path |-> IF unlink THEN record.pdf_path ELSE NoPath,
             index |-> save_pdf_index([k \in DOMAIN loaded \ {key} |-> loaded[k]]),
             files |-> IF unlink
                       THEN [p \in DOMAIN fs \ {record.pdf_path} |-> fs[p]]
                       ELSE fs]

UnknownId == <<"id16", "?">>

\* DELETE /{record_id} of the library router
DeleteWhen(in_run) ==
    /\ \E record_id \in {disk_index[k].id : k \in DOMAIN disk_index} \cup {UnknownId},
          delete_file \in BOOLEAN :
         \E r \in {delete_record(disk_index, files, record_id, delete_file)} :
            /\ disk_index' = r.index
            /\ files' = r.files
            /\ deleted' = [called |-> TRUE, record_id |-> record_id,
                           delete_file |-> delete_file, raised |-> r.raised,
                           removed_file |-> r.removed_file,
                           removed_path |-> r.removed_path,
                           in_run |-> in_run, index_no |-> index_no]
    /\ UNCHANGED <<index, clock, pc, cfg, input_entries, index_no, ent, browser,
                   out, result, runs, trace, lib_calls, store, call>>

\* the request comes between runs
Delete ==
    /\ pc = "idle"
    /\ DeleteWhen(FALSE)

Next ==
    \/ UserFile
    \/ StartRun
    \/ CacheStep
    \/ LocalStep
    \/ CollectStep
    \/ DownloadStep
    \/ BrowserOpen
    \/ BrowserResolve
    \/ BrowserPoll
    \/ FinishEntry
    \/ Finally
    \/ Save
    \/ Idle
    \/ Delete

Spec == Init /\ [][Next]_vars

------------------------------------------------------------------------------
(* Runs with a request to delete a record coming in the middle *)

RacedPool == {EntryDoi, EntryUrl}

\* the runs of this specification leave the browser alone
RacedConfigs == {c \in Configs : ~c.browser_assist_enabled}

StartRaced == StartRunFrom(RacedPool, RacedConfigs)

\* the request comes once while run() is between load_pdf_index (line 859)
\* and save_pdf_index (line 1270)
DeleteInRun ==
    /\ pc \in {"cache", "local", "collect", "download", "browser_open",
               "browser_resolve", "browser_poll", "finish", "finally", "save"}
    /\ ~deleted.called
    /\ DeleteWhen(TRUE)

NextRaced ==
    \/ UserFile
    \/ StartRaced
    \/ CacheStep
    \/ LocalStep
    \/ CollectStep
    \/ DownloadStep
    \/ BrowserOpen
    \/ FinishEntry
    \/ Finally
    \/ Save
    \/ Idle
    \/ Delete
    \/ DeleteInRun

SpecRaced == Init /\ [][NextRaced]_vars

------------------------------------------------------------------------------
(* Runs on entries that have no canonical key *)

StartKeyless == StartRunFrom(KeylessPool, Configs)

NextKeyless ==
    \/ UserFile
    \/ StartKeyless
    \/ CacheStep
    \/ LocalStep
    \/ CollectStep
    \/ DownloadStep
    \/ BrowserOpen
    \/ BrowserResolve
    \/ BrowserPoll
    \/ FinishEntry
    \/ Finally
    \/ Save
    \/ Idle
    \/ Delete

SpecKeyless == Init /\ [][NextKeyless]_vars

------------------------------------------------------------------------------
(* The library's functions called directly, in any order, on one index *)

LibKeys == {Txt_doi_colon \o Doi1, Txt_url_colon \o UrlPage}

\* who asks: no project, a project with its entry, another project with its own
LibCallers ==
    {[project_id |-> "", step_id |-> "s1", entry_key |-> "e1"],
     [project_id |-> "p1", step_id |-> "s1", entry_key |-> "e1"],
     [project_id |-> "p2", step_id |-> "s1", entry_key |-> "e2"]}

LibFoundArgs ==
    {[key |-> k, title |-> "T1", year |-> "", database |-> "", pdf_path |-> LocalFile,
      managed_file |-> FALSE, source |-> "local_file", source_url |-> NoText,
      provider |-> "local", content_type |-> Txt_application_pdf,
      project_id |-> c.project_id, step_id |-> c.step_id, entry_key |-> c.entry_key] :
        k \in LibKeys, c \in LibCallers}

LibMissingArgs ==
    {[key |-> k, title |-> "T1", year |-> "", database |-> "", reason |-> "pdf_not_resolved",
      project_id |-> c.project_id, step_id |-> c.step_id, entry_key |-> c.entry_key] :
        k \in LibKeys, c \in LibCallers}

MissingCalls(key) == IF key \in DOMAIN lib_calls THEN lib_calls[key] ELSE 0

LibCallAllowed ==
    /\ pc = "idle"
    /\ runs < MaxLibCalls

LibFrame == UNCHANGED <<disk_index, files, pc, cfg, input_entries, index_no, ent,
                        browser, out, result, trace, deleted, store, call>>

LibTick ==
    /\ pc = "idle"
    /\ clock < MaxClock
    /\ clock' = clock + 1
    /\ UNCHANGED <<index, runs, lib_calls, deleted, store, call>>
    /\ LibFrame

LibEnsure ==
    /\ LibCallAllowed
    /\ \E key \in LibKeys, title \in {"", "T1"} :
         /\ index' = ensure_record(index, key, title, clock)
         /\ lib_calls' = [k \in DOMAIN lib_calls \cup {key} |-> MissingCalls(k)]
    /\ runs' = runs + 1
    /\ UNCHANGED clock
    /\ LibFrame

LibMarkFound ==
    /\ LibCallAllowed
    /\ \E a \in LibFoundArgs :
         /\ index' = mark_record_found(index, a, clock, files)
         /\ lib_calls' = [k \in DOMAIN lib_calls \cup {a.key} |-> MissingCalls(k)]
    /\ runs' = runs + 1
    /\ UNCHANGED clock
    /\ LibFrame

LibMarkMissing ==
    /\ LibCallAllowed
    /\ \E a \in LibMissingArgs :
         /\ index' = mark_record_missing(index, a, clock)
         /\ lib_calls' = [k \in DOMAIN lib_calls \cup {a.key} |->
                            IF k = a.key THEN MissingCalls(k) + 1 ELSE MissingCalls(k)]
    /\ runs' = runs + 1
    /\ UNCHANGED clock
    /\ LibFrame

NextLib == LibTick \/ LibEnsure \/ LibMarkFound \/ LibMarkMissing

SpecLib == Init /\ [][NextLib]_vars

------------------------------------------------------------------------------
(* save_pdf_index and load_pdf_index on the file, a step at a time (SpecFile) *)

\* what something other than save_pdf_index may leave as index.json
SavedRecord == ensure_record([k \in {} |-> 0], Txt_doi_colon \o Doi1, "T1", 0)

ForeignFiles ==
    {NoFile,
     Text(JsInvalid),
     Text(Js("array", <<>>)),
     Text(Js("string", "1.0")),
     Text(Js("object", [k \in {"version"} |-> Js("string", "2.0")])),
     Text(Js("object", [k \in {"records"} |-> Js("array", <<>>)])),
     Text(Js("object", [k \in {"records"} |-> json_dumps(py_index(SavedRecord).v.records)])),
     Text(Js("object", [k \in {"version", "records", "note"} |->
                           IF k = "records" THEN Js("null", <<>>) ELSE Js("string", "2.0")])),
     [Text(json_dumps(py_index(SavedRecord))) EXCEPT !.upto = 1]}

FileFrame == UNCHANGED <<disk_index, files, index, clock, pc, cfg, input_entries,
                         index_no, ent, browser, out, result, runs, trace,
                         lib_calls, deleted, call>>

\* the calls that change the index in memory before it is saved
MaxMarks == 2

\* mark_record_found or mark_record_missing on the index in memory
FileMark ==
    /\ runs < MaxMarks
    /\ \/ \E a \in {x \in LibFoundArgs : x.key = Txt_doi_colon \o Doi1 /\ x.project_id = "p1"} :
            index' = mark_record_found(index, a, clock, files)
       \/ \E a \in {x \in LibMissingArgs : x.key = Txt_url_colon \o UrlPage /\ x.project_id = "p2"} :
            index' = mark_record_missing(index, a, clock)
    /\ runs' = runs + 1
    /\ UNCHANGED <<disk_index, files, clock, pc, cfg, input_entries, index_no, ent,
                   browser, out, result, trace, lib_calls, deleted, store, call>>

\* save_pdf_index(index): open(index_file, "w")
FileOpen ==
    /\ store.writer # "writing"
    /\ \E saving \in {py_index(index)} :
         store' = [store EXCEPT !.file = open_w(json_dumps(saving)),
                                !.writer = "writing",
                                !.saving = saving]
    /\ FileFrame

\* json.dump(index, f): the next piece
FileWrite ==
    /\ store.writer = "writing"
    /\ store.file.upto < chunks(store.file.doc)
    /\ store' = [store EXCEPT !.file = write_chunk(@)]
    /\ FileFrame

\* the with block ends: the text is complete
FileClose ==
    /\ store.writer = "writing"
    /\ store.file.upto = chunks(store.file.doc)
    /\ store' = [store EXCEPT !.writer = "idle", !.previous = store.saving,
                              !.foreign = FALSE]
    /\ FileFrame

\* the writer stops before the text is complete: the process ends, or
\* f.write raises
FileInterrupt ==
    /\ store.writer = "writing"
    /\ store.file.upto < chunks(store.file.doc)
    /\ store' = [store EXCEPT !.writer = "interrupted"]
    /\ FileFrame

\* load_pdf_index(), at any moment
FileLoad ==
    /\ store' = [store EXCEPT !.observed = TRUE, !.read = store.file,
                              !.loaded = read_pdf_index(store.file)]
    /\ FileFrame

\* index.json is removed, edited by hand or damaged
FilePut ==
    /\ store.writer # "writing"
    /\ \E file \in ForeignFiles :
         store' = [store EXCEPT !.file = file, !.writer = "idle", !.foreign = TRUE]
    /\ FileFrame

NextFile ==
    \/ FileMark
    \/ FileOpen
    \/ FileWrite
    \/ FileClose
    \/ FileInterrupt
    \/ FileLoad
    \/ FilePut

SpecFile == Init /\ [][NextFile]_vars

------------------------------------------------------------------------------
(* calls of the pure helpers on texts an entry or an answer may hold (SpecPure) *)

DoiUpper == <<"1", "0", ".", "1", "0", "0", "0", "/", "A", "B", "C", "d", "e", "f">>

DoiBackslash == <<"1", "0", ".", "1", "0", "0", "0", "/", "a", "b", "c", "\\", "d", "e", "f">>

DoiTwiceQuoted == <<"1", "0", ".", "1", "0", "0", "0", "/", "a", "b", "%", "2", "5", "2", "0">>

DoiShort == <<"1", "0", ".", "1", "0", "0", "0", "/", "a", "b", "c">>

NotADoi == <<"a", "b", "c">>

UrlUpper == <<"H", "T", "T", "P", ":", "/", "/", "H", "/", "p">>


UrlQuotedDoi == <<"h", "t", "t", "p", ":", "/", "/", "h", "/", "1", "0", ".", "1", "0", "0", "0", "%", "2", "F", "a", "b", "c", "d", "e", "f">>

UrlSuffix == <<"h", "t", "t", "p", ":", "/", "/", "h", "/", "A", "B", "C", "D", "E", "F", ".", "p", "d", "f">>

RawDoiPrefixes ==
    {<<>>,
     <<" ">>,
     <<"{">>,
     <<"d", "o", "i", ":">>,
     <<"D", "O", "I", ":", " ">>,
     <<"h", "t", "t", "p", "s", ":", "/", "/", "d", "o", "i", ".", "o", "r", "g", "/">>,
     <<"H", "T", "T", "P", ":", "/", "/", "d", "x", ".", "d", "o", "i", ".", "o", "r", "g", "/">>}

RawDoiSuffixes ==
    {<<>>,
     <<" ">>,
     <<"}">>,
     <<"/">>,
     <<"?", "a">>,
     <<"#", "s">>}

RawUrlPrefixes ==
    {<<>>,
     <<" ">>,
     <<"{">>}

RawUrlSuffixes ==
    {<<>>,
     <<" ">>,
     <<"}">>,
     <<" ", "}">>,
     <<"?", "q", "=", "1">>,
     <<"#", "f">>,
     <<"?", "q", "=", "1", "#", "f">>}

\* DOIs as entries write them: with blanks, braces, prefixes, queries,
\* fragments, upper case, a backslash, an escaped escape; and a text that is none
RawDois ==
    {p \o c \o s : p \in RawDoiPrefixes,
                   c \in {Doi1, DoiUpper, DoiBackslash, DoiTwiceQuoted, NotADoi},
                   s \in RawDoiSuffixes}

RawUrls ==
    {p \o c \o s : p \in RawUrlPrefixes,
                   c \in {UrlPage, UrlUpper, UrlFile, UrlFtp},
                   s \in RawUrlSuffixes}

\* one DOI written in different letter case, in braces, with a backslash,
\* with a doi: prefix or behind a resolver
DoiVariants ==
    {p \o c \o s : p \in RawDoiPrefixes \ {<<" ">>},
                   c \in {Doi1, DoiUpper, DoiBackslash},
                   s \in {<<>>, <<"}">>}}

KeyEntries ==
    {[ID |-> "e1", title |-> "T1", doi |-> doi, url |-> url, file |-> NoPath] :
        doi \in DoiVariants \cup {NoText, NotADoi}, url \in {NoText, UrlPage, UrlUpper}}

\* a body: pad bytes that spell nothing, then text
body_bytes(b) ==
    SubSeq([i \in 1..(b.pad + Len(b.text)) |-> IF i <= b.pad THEN "x" ELSE b.text[i - b.pad]],
           1, b.pad + Len(b.text))

SmallBodies ==
    {[pad |-> 0, text |-> t] :
        t \in {BodyDoi, BodyOther, Txt_pdf_magic \o DoiUpper,
               Txt_pdf_magic \o <<"a", "b", "c">>, Txt_pdf_magic \o <<"A", "B", "C", "D", "E", "F">>}}

\* the DOI ends at the last sampled byte, starts at it, starts after it
LargeBodies ==
    {[pad |-> SampleBytes - Len(Doi1), text |-> Doi1],
     [pad |-> SampleBytes - 1, text |-> Doi1],
     [pad |-> SampleBytes, text |-> Doi1]}

LikelyArgs ==
    {[body |-> b, final_url |-> u, doi |-> d] :
        b \in SmallBodies,
        u \in {NoText, UrlFile, UrlQuotedDoi, UrlSuffix},
        d \in {NoText, Doi1, Doi1Raw, DoiShort, NotADoi}}
    \cup {[body |-> b, final_url |-> UrlFile, doi |-> Doi1Raw] : b \in LargeBodies}

\* max_pdf_mb * 1024 * 1024, at the scale of the model's bodies: BodyOther
\* has exactly the smaller number of bytes, BodyDoi more
FetchLimits == {Len(BodyOther), 40}

\* answers to the streamed GET: an exception or not, the status, the declared
\* length (0: not declared), the bytes, the Content-Type header
FetchArgs ==
    {[resp |-> [error |-> e, status |-> s, content_length |-> n, body |-> b,
                content_type |-> t, final_url |-> UrlFile],
      max_bytes |-> m] :
        e \in BOOLEAN, s \in {200, 404},
        n \in {0, Len(BodyOther), Len(BodyOther) + 1, 41},
        b \in {<<>>, BodyOther, BodyHtml, BodyDoi},
        t \in {<<>>, Txt_text_html, Txt_application_pdf,
               <<"A", "p", "p", "l", "i", "c", "a", "t", "i", "o", "n", "/", "P", "D", "F">>},
        m \in FetchLimits}

DoiAcm == <<"1", "0", ".", "1", "1", "4", "5", "/", "a", "b", "c", "d", "e", "f">>

EntryAcm == [ID |-> "e4", title |-> "T4", doi |-> DoiAcm, url |-> UrlPage, file |-> NoPath]

\* the answers of one provider that may name url: the request raises, a
\* status other than 200, a well-formed body, and a body that proves
\* malformed after url was read
ProviderAnswers(url) ==
    {LookupRaises,
     [raises |-> FALSE, status |-> 404, urls |-> <<url>>, read |-> 0],
     LookupNames(<<url>>),
     [raises |-> FALSE, status |-> 200, urls |-> <<url, UrlPage>>, read |-> 1]}

\* entries with and without a DOI, one of them of the ACM, the providers'
\* answers, with and without an Unpaywall address
CollectArgs ==
    [entry : {EntryDoi, EntryUrl, EntryAcm},
     unpaywall_email : {"", "a@b"},
     api : [openalex : ProviderAnswers(UrlFile),
            semantic_scholar : ProviderAnswers(UrlOther),
            unpaywall : ProviderAnswers(UrlFtp) \cup ProviderAnswers(UrlFile)]]

PureArgs ==
    {[kind |-> "doi", raw |-> raw] : raw \in RawDois}
    \cup {[kind |-> "url", raw |-> raw] : raw \in RawUrls}
    \cup {[kind |-> "entry", entry |-> entry] : entry \in KeyEntries}
    \cup {[kind |-> "likely", likely |-> a] : a \in LikelyArgs}
    \cup {[kind |-> "fetch", fetch |-> a] : a \in FetchArgs}
    \cup {[kind |-> "collect", collect |-> a] : a \in CollectArgs}

InitPure == InitState /\ call \in {[fn |-> "none", args |-> a, out |-> <<>>] : a \in PureArgs}

\* how often a helper is applied to its own result, or called again
MaxApply == 2

PureFrame == UNCHANGED <<disk_index, files, index, clock, pc, cfg, input_entries,
                         index_no, ent, browser, out, result, runs, trace,
                         lib_calls, deleted, store>>

\* the argument of the next application: the raw text, then the last result
NextRaw == IF call.out = <<>> THEN call.args.raw ELSE call.out[Len(call.out)]

\* normalize_doi(raw), then normalize_doi of what it returned
CallNormalizeDoi ==
    /\ call.args.kind = "doi"
    /\ Len(call.out) < MaxApply
    /\ NextRaw # NoText
    /\ call' = [call EXCEPT !.fn = "normalize_doi", !.out = Append(@, normalize_doi(NextRaw))]
    /\ PureFrame

\* normalize_url(raw), then normalize_url of what it returned
CallNormalizeUrl ==
    /\ call.args.kind = "url"
    /\ Len(call.out) < MaxApply
    /\ NextRaw # NoText
    /\ call' = [call EXCEPT !.fn = "normalize_url", !.out = Append(@, normalize_url(NextRaw))]
    /\ PureFrame

\* canonical_key_for_entry(entry), called again on the same entry
CallCanonicalKey ==
    /\ call.args.kind = "entry"
    /\ Len(call.out) < MaxApply
    /\ call' = [call EXCEPT !.fn = "canonical_key_for_entry",
                            !.out = Append(@, canonical_key_for_entry(call.args.entry))]
    /\ PureFrame

\* is_pdf_likely_for_doi(body, final_url, doi)
CallIsPdfLikely ==
    /\ call.args.kind = "likely"
    /\ call.out = <<>>
    /\ \E a \in {call.args.likely} :
         call' = [call EXCEPT !.fn = "is_pdf_likely_for_doi",
                              !.out = <<is_pdf_likely_for_doi(body_bytes(a.body),
                                                              a.final_url, a.doi)>>]
    /\ PureFrame

\* fetch_pdf_bytes(client, url, user_agent, max_pdf_mb, timeout_sec)
CallFetch ==
    /\ call.args.kind = "fetch"
    /\ call.out = <<>>
    /\ \E a \in {call.args.fetch} :
         call' = [call EXCEPT !.fn = "fetch_pdf_bytes",
                              !.out = <<fetch_pdf_bytes(a.resp, a.max_bytes)>>]
    /\ PureFrame

\* collect_candidate_urls(client, entry, doi, unpaywall_email)
CallCollect ==
    /\ call.args.kind = "collect"
    /\ call.out = <<>>
    /\ \E a \in {call.args.collect} :
         call' = [call EXCEPT
                    !.fn = "collect_candidate_urls",
                    !.out = <<collect_candidate_urls(a.entry, normalize_doi(a.entry.doi),
                                                     a.unpaywall_email, a.api)>>]
    /\ PureFrame

NextPure ==
    \/ CallCollect
    \/ CallNormalizeDoi
    \/ CallNormalizeUrl
    \/ CallCanonicalKey
    \/ CallIsPdfLikely
    \/ CallFetch

SpecPure == InitPure /\ [][NextPure]_vars

------------------------------------------------------------------------------
(* BrowserAssistSession.resolve_pdf, step by step *)

Txt_dot_pdf == <<".", "p", "d", "f">>

\* publisher_hint_urls
publisher_hint_urls(url) ==
    IF url = NoText THEN FALSE ELSE
    Bind(Lower(url), LAMBDA lower :
       \/ Contains(lower, Txt_dot_pdf)
       \/ Contains(lower, <<"/", "d", "o", "i", "/", "p", "d", "f", "/">>)
       \/ Contains(lower, <<"/", "d", "o", "i", "/", "e", "p", "d", "f", "/">>)
       \/ Contains(lower, <<"s", "t", "a", "m", "p", "/", "s", "t", "a", "m", "p", ".", "j", "s", "p">>)
       \/ Contains(lower, <<"s", "t", "a", "m", "p", "p", "d", "f", "/", "g", "e", "t", "p", "d", "f", ".", "j", "s", "p">>)
       \/ Contains(lower, <<"d", "o", "w", "n", "l", "o", "a", "d", "=", "t", "r", "u", "e">>))

RECURSIVE HintLinks(_)
\* the hrefs of the page that publisher_hint_urls lets through
HintLinks(hrefs) ==
    IF hrefs = <<>> THEN <<>>
    ELSE IF publisher_hint_urls(Head(hrefs)) THEN <<Head(hrefs)>> \o HintLinks(Tail(hrefs))
    ELSE HintLinks(Tail(hrefs))

\* BrowserAssistSession._page_candidates; page is the live page: its URL, the
\* URLs extract_html_pdf_urls finds in its content and the hrefs of its
\* anchors.  The model's pages carry no IEEE arnumber.
page_candidates(page, doi, seed_url) ==
    Bind(add_url_candidate(NoCandidates, page.url, "browser_page"), LAMBDA c1 :
    Bind(add_url_candidate(c1, seed_url, "browser_seed"), LAMBDA c2 :
    Bind(add_direct_publisher_candidates(c2, doi), LAMBDA c3 :
    Bind(AddAll(c3, page.html_urls, "browser_html"), LAMBDA c4 :
    Bind(AddAll(c4, HintLinks(page.hrefs), "browser_link"), LAMBDA c5 :
       c5.candidates)))))

\* BrowserAssistSession._fetch_pdf_with_browser_request, for an answer whose
\* body can be read
fetch_pdf_with_browser_request(resp, max_bytes) ==
    IF resp.error THEN NoFetch
    ELSE IF resp.status # 200 THEN NoFetch
    ELSE IF resp.body = <<>> THEN NoFetch
    ELSE IF Len(resp.body) > max_bytes THEN NoFetch
    ELSE Bind(Lower(resp.content_type), LAMBDA content_type :
         IF ~Contains(content_type, <<"p", "d", "f">>) /\ ~StartsWith(resp.body, Txt_pdf_magic)
         THEN NoFetch
         ELSE [ok |-> TRUE, body |-> resp.body, final_url |-> resp.final_url,
               content_type |-> content_type])

\* a variant of the test of line 492 that takes no candidate for tried
already_tried_never(candidate_url, tried) == FALSE

\* resolve_pdf, line 492: `if candidate_url in tried`
already_tried(candidate_url, tried) == candidate_url \in tried

\* resolve_pdf, lines 455-459: the URL the page is sent to
seed_url_of(doi, entry_url, initial_candidates) ==
    Bind(Strip(entry_url, Whitespace), LAMBDA stripped :
       IF stripped # NoText THEN stripped
       ELSE IF doi # NoText THEN DoiResolverUrl(doi)
       ELSE IF initial_candidates # <<>> THEN initial_candidates[1].url
       ELSE NoText)

\* the live page at a poll tick
Pages ==
    {[url |-> UrlPage, html_urls |-> <<>>, hrefs |-> <<>>],
     [url |-> UrlPage, html_urls |-> <<UrlFile>>, hrefs |-> <<UrlPage, UrlOther>>]}

\* answers to context.request.get(url) and resp.body(); raises: resp.body()
\* raised
BrowserResponses(url) ==
    {[error |-> TRUE, raises |-> FALSE, status |-> 0, body |-> NoText,
      content_type |-> <<>>, final_url |-> url],
     [error |-> FALSE, raises |-> TRUE, status |-> 200, body |-> NoText,
      content_type |-> <<>>, final_url |-> url],
     [error |-> FALSE, raises |-> FALSE, status |-> 404, body |-> BodyHtml,
      content_type |-> Txt_text_html, final_url |-> url],
     [error |-> FALSE, raises |-> FALSE, status |-> 200, body |-> BodyOther,
      content_type |-> Txt_application_pdf, final_url |-> url],
     [error |-> FALSE, raises |-> FALSE, status |-> 200, body |-> BodyDoi,
      content_type |-> <<>>, final_url |-> url]}

\* the arguments of resolve_pdf
ResolveArgs ==
    [doi : {NoText, Doi1},
     entry_url : {NoText, UrlPage},
     initial_candidates : {<<>>, <<[url |-> UrlFile, provider |-> "entry_url_pdf"]>>},
     wait_sec : {3},
     max_bytes : {40}]

\* the frame of resolve_pdf: where it is (at), queue and seen, tried, the
\* position of the for loop in the queue, time.time() and the deadline in
\* seconds from the call, the poll tick; requested is the history of the
\* requests, each with its tick and whether its answer was taken
ResolveFrame(a) ==
    [fn |-> "resolve_pdf", args |-> a, out |-> <<>>, at |-> "start",
     queue |-> NoCandidates, tried |-> {}, pos |-> 1, now |-> 0, deadline |-> 0,
     tick |-> 0, requested |-> <<>>]

InitResolve == InitState /\ call \in {ResolveFrame(a) : a \in ResolveArgs}

\* `return None`, lines 460-461 and 516-518
ResolveReturnsNone == call' = [call EXCEPT !.at = "returned", !.out = <<NoFetch>>]

\* resolve_pdf, lines 455-485: the seed URL, the queue of the initial candidates
ResolveStart ==
    /\ call.fn = "resolve_pdf"
    /\ call.at = "start"
    /\ \E a \in {call.args} :
       \E seed_url \in {seed_url_of(a.doi, a.entry_url, a.initial_candidates)} :
          IF seed_url = NoText
          THEN ResolveReturnsNone
          ELSE call' = [call EXCEPT
                   !.at = "harvest",
                   !.queue = AddCandidates(NoCandidates, a.initial_candidates),
                   !.deadline = resolve_deadline(0, a.wait_sec)]
    /\ PureFrame

\* resolve_pdf, lines 486-489: the head of the polling loop, page candidates
ResolveHarvest ==
    /\ call.fn = "resolve_pdf"
    /\ call.at = "harvest"
    /\ IF call.now < call.deadline
       THEN \E a \in {call.args}, page \in Pages :
            \E seed_url \in {seed_url_of(a.doi, a.entry_url, a.initial_candidates)} :
               call' = [call EXCEPT
                   !.at = "try",
                   !.tick = @ + 1,
                   !.pos = 1,
                   !.queue = AddCandidates(@, page_candidates(page, a.doi, seed_url))]
       ELSE ResolveReturnsNone
    /\ PureFrame

\* resolve_pdf, lines 491-507: one turn of the for loop over the queue
ResolveTry ==
    /\ call.fn = "resolve_pdf"
    /\ call.at = "try"
    /\ IF call.pos > Len(call.queue.candidates)
       THEN call' = [call EXCEPT !.at = "wait"]
       ELSE \E cand \in {call.queue.candidates[call.pos]} :
            IF already_tried(cand.url, call.tried)
            THEN call' = [call EXCEPT !.pos = @ + 1]
            ELSE \E resp \in BrowserResponses(cand.url) :
                 IF resp.raises
                 THEN call' = [call EXCEPT
                          !.at = "raised",
                          !.tried = @ \cup {cand.url},
                          !.requested = Append(@, [url |-> cand.url, tick |-> call.tick,
                                                   raised |-> TRUE, taken |-> FALSE])]
                 ELSE \E fetched \in {fetch_pdf_with_browser_request(resp, call.args.max_bytes)} :
                      \E taken \in {fetched.ok /\ is_pdf_likely_for_doi(fetched.body,
                                                        fetched.final_url, call.args.doi)} :
                         call' = [call EXCEPT
                             !.at = IF taken THEN "returned" ELSE @,
                             !.out = IF taken
                                     THEN <<fetched @@ [provider |-> cand.provider]>>
                                     ELSE @,
                             !.pos = @ + 1,
                             !.tried = @ \cup {cand.url},
                             !.requested = Append(@, [url |-> cand.url, tick |-> call.tick,
                                                      raised |-> FALSE, taken |-> taken])]
    /\ PureFrame

\* seconds the requests of one round take
RoundTimes == {0, 3}

\* resolve_pdf, lines 509-518: the time left, the wait before the next tick
ResolveWait ==
    /\ call.fn = "resolve_pdf"
    /\ call.at = "wait"
    /\ \E round_time \in RoundTimes :
       \E remaining \in {call.deadline - (call.now + round_time)} :
          IF remaining <= 0
          THEN ResolveReturnsNone
          ELSE \/ \* page.wait_for_timeout raises: break
                  ResolveReturnsNone
               \/ call' = [call EXCEPT
                      !.at = "harvest",
                      !.now = call.now + round_time + poll_wait(remaining)]
    /\ PureFrame

NextResolve ==
    \/ ResolveStart
    \/ ResolveHarvest
    \/ ResolveTry
    \/ ResolveWait

SpecResolve == InitResolve /\ [][NextResolve]_vars

------------------------------------------------------------------------------
(* Properties of run(): the pipeline of one entry *)

\* the steps of the current entry, trace, name the strategy they belong to
StrategyOf(step) ==
    CASE step = "cache" -> 1
      [] step = "local" -> 2
      [] step \in {"collect", "fetch", "discover"} -> 3
      [] step \in {"session", "resolve"} -> 4

SourceOf(step) ==
    CASE step = "cache" -> "cache"
      [] step = "local" -> "local_file"
      [] step = "fetch" -> "download"
      [] step = "resolve" -> "browser_assist"
      [] OTHER -> "None"

\* the change FinishEntry has just appended for the entry
LastChange(o) == o.changes_all[Len(o.changes_all)]

C1_Order ==
    \A i, j \in DOMAIN trace : i < j => StrategyOf(trace[i]) <= StrategyOf(trace[j])

C1_Source ==
    ent.status = "found" =>
        /\ trace # <<>>
        /\ ent.resolved_source = SourceOf(trace[Len(trace)])

C1_Stops ==
    ent.status = "found" => trace' = trace \/ trace' = <<>>

C1_Reported ==
    (pc = "finish" /\ pc' # "finish") =>
        /\ LastChange(out').details.pdf_status = ent.status
        /\ LastChange(out').details.source = ent.resolved_source
        /\ LastChange(out').key = ent.entry_key

\* C1: for every entry, the strategies are attempted in the order cache,
\* local file, direct download, browser assist; once a strategy has succeeded
\* no later step is taken for the entry; and the source reported for the entry
\* is that of the strategy whose step succeeded.
C1_OrderedPipeline ==
    /\ [](C1_Order /\ C1_Source)
    /\ [][C1_Stops /\ C1_Reported]_vars

\* an entry that went through all four strategies and was resolved by the last
C1_Witness ==
    /\ pc = "finish"
    /\ ent.status = "found"
    /\ ent.resolved_source = "browser_assist"
    /\ Len(trace) >= 4
    /\ trace[1] = "cache"
    /\ trace[2] = "local"
    /\ \E i \in DOMAIN trace : trace[i] = "fetch"
    /\ trace[Len(trace)] = "resolve"

\* C2 (as stated): for an entry with a known DOI, what the direct download
\* stored and marked found with source=download passes is_pdf_likely_for_doi.
C2_DownloadChecked ==
    (/\ ent.status = "found"
     /\ ent.resolved_source = "download"
     /\ ent.doi # NoText
     /\ ent.resolved_path \in DOMAIN files)
    => is_pdf_likely_for_doi(files[ent.resolved_path], ent.resolved_url, ent.doi)

\* the conditions of a cache hit for the entry about to be processed, stated
\* on the index and the files as they are before the entry's first step
CacheValid ==
    /\ pc = "cache"
    /\ cfg.reuse_cache
    /\ LET key == canonical_key_for_entry(Entry)
       IN /\ key # NoText
          /\ key \in DOMAIN index
          /\ index[key].status = "found"
          /\ index[key].pdf_path \in DOMAIN files
          /\ is_pdf_likely_for_doi(files[index[key].pdf_path], index[key].source_url,
                                   normalize_doi(Entry.doi))

C3_Hit ==
    CacheValid => (ent'.status = "found" /\ ent'.resolved_source = "cache")

C3_NothingElse ==
    ent.resolved_source = "cache" =>
        /\ trace = <<"cache">>
        /\ ent.candidates_for_entry = <<>>
        /\ ent.attempted_providers = {}
        /\ ~ent.entry_browser_assist_used

C3_Reported ==
    (pc = "finish" /\ pc' # "finish" /\ ent.resolved_source = "cache") =>
        /\ LastChange(out').details.pdf_status = "found"
        /\ LastChange(out').details.source = "cache"
        /\ out'.pdf_found = Append(out.pdf_found, Entry)

\* C3: with reuse_cache on and a found record for the entry's key whose file
\* exists and passes the DOI-likelihood check, the entry is reported found with
\* source=cache, and no candidate is generated or fetched, no landing page is
\* read and no browser-assist step is taken for it.
C3_CacheHit ==
    /\ [][C3_Hit /\ C3_Reported]_vars
    /\ [](C3_NothingElse)

\* a cache hit on a record for a DOI entry, about to be reported
C3_Witness ==
    /\ pc = "finish"
    /\ ent.resolved_source = "cache"
    /\ ent.doi # NoText
    /\ cfg.download_enabled
    /\ cfg.browser_assist_enabled

------------------------------------------------------------------------------
(* Properties of the persisted index across runs and deletions *)

Refreshed(old, new) == old.status = "found" /\ new.status = "found"

Promoted(old, new) == old.status = "missing" /\ new.status = "found"

FailedAgain(old, new) ==
    /\ old.status = "missing"
    /\ new.status = "missing"
    /\ new.failure_count = old.failure_count + 1

Demoted(old, new) ==
    /\ old.status = "found"
    /\ new.status = "missing"
    /\ new.failure_count = old.failure_count + 1

\* C5 (as stated): an attempt on a key that has a record refreshes a found
\* record, promotes a missing one, or leaves it missing with failure_count
\* incremented, and nothing else.
C5_ThreeTransitions ==
    [][\A k \in DOMAIN index \cap DOMAIN index' :
          index'[k] # index[k] =>
             \/ Refreshed(index[k], index'[k])
             \/ Promoted(index[k], index'[k])
             \/ FailedAgain(index[k], index'[k])]_vars

\* C5 (amended): as above, or a found record becomes missing with
\* failure_count incremented, when its cached file is no longer valid (or the
\* cache is not used) and no strategy resolves the entry.
C5_FourTransitions ==
    [][\A k \in DOMAIN index \cap DOMAIN index' :
          index'[k] # index[k] =>
             \/ Refreshed(index[k], index'[k])
             \/ Promoted(index[k], index'[k])
             \/ FailedAgain(index[k], index'[k])
             \/ Demoted(index[k], index'[k])]_vars

\* a run that loaded a found record and has marked it missing
C5_Witness ==
    /\ pc = "save"
    /\ \E k \in DOMAIN index \cap DOMAIN disk_index :
          Demoted(disk_index[k], index[k])

\* a cached found record that fails validation for the entry about to be processed
CacheInvalid ==
    /\ pc = "cache"
    /\ cfg.reuse_cache
    /\ ~CacheValid
    /\ LET key == canonical_key_for_entry(Entry)
       IN /\ key \in DOMAIN index
          /\ index[key].status = "found"

C6_RunKeeps ==
    pc # "idle" =>
        /\ DOMAIN files \subseteq DOMAIN files'
        /\ DOMAIN disk_index \subseteq DOMAIN disk_index'
        /\ pc' # "idle" => DOMAIN index \subseteq DOMAIN index'

C6_Invalidation ==
    CacheInvalid =>
        /\ index' = index
        /\ files' = files
        /\ pc' = "local"
        /\ ent'.status # "found"

C6_Loaded == pc # "idle" => DOMAIN disk_index \subseteq DOMAIN index

\* C6: no step of a run removes a record or a file; every key of the index
\* the run loaded is in the index it holds and saves; a cached found record
\* that fails validation is left in place with its file, and the entry goes
\* on to the later strategies.
C6_RunRemovesNothing ==
    /\ [][C6_RunKeeps /\ C6_Invalidation]_vars
    /\ [](C6_Loaded)

\* after an invalidated cache hit: the record is still found, its file is
\* still there, the entry is not resolved and the local step is next
C6_Witness ==
    /\ pc = "local"
    /\ trace = <<"cache">>
    /\ ent.status # "found"
    /\ ent.canonical_key \in DOMAIN index
    /\ index[ent.canonical_key].status = "found"
    /\ index[ent.canonical_key].pdf_path \in DOMAIN files

\* C10 (as stated): when run() has returned or raised, the Playwright runtime
\* and the browser context started during the run have been closed.
C10_BrowserClosed ==
    pc = "done" => (browser.playwright # "running" /\ browser.context # "running")

------------------------------------------------------------------------------
(* Properties of the records under any sequence of library calls (SpecLib) *)

Range(seq) == {seq[i] : i \in DOMAIN seq}

NoRepeats(seq) == \A i, j \in DOMAIN seq : seq[i] = seq[j] => i = j

IsPrefix(s, t) == Len(s) <= Len(t) /\ SubSeq(t, 1, Len(s)) = s

C7_Counts ==
    \A k \in DOMAIN index : index[k].failure_count = MissingCalls(k)

\* a call that is not mark_record_missing on k (lib_calls[k] stays) leaves
\* the count of k's record alone, whatever its status becomes
C7_FoundKeeps ==
    \A k \in DOMAIN index :
        lib_calls'[k] = lib_calls[k]
        => index'[k].failure_count = index[k].failure_count

C7_NeverLess ==
    \A k \in DOMAIN index :
        /\ k \in DOMAIN index'
        /\ index'[k].failure_count \in {index[k].failure_count, index[k].failure_count + 1}

\* C7: failure_count of a record is the number of mark_record_missing calls
\* made on its key since the record was created; mark_record_found leaves it
\* unchanged, and it never decreases.
C7_FailureCount ==
    /\ [](C7_Counts)
    /\ [][C7_FoundKeeps /\ C7_NeverLess]_vars

\* a record marked found after two failures
C7_Witness ==
    \E k \in DOMAIN index :
        /\ index[k].status = "found"
        /\ index[k].failure_count = 2

C8_NoDuplicates ==
    \A k \in DOMAIN index :
        /\ NoRepeats(index[k].project_ids)
        /\ NoRepeats(index[k].step_ids)
        /\ NoRepeats(index[k].entry_keys)

C8_Grows ==
    \A k \in DOMAIN index :
        /\ k \in DOMAIN index'
        /\ IsPrefix(index[k].project_ids, index'[k].project_ids)
        /\ IsPrefix(index[k].step_ids, index'[k].step_ids)
        /\ IsPrefix(index[k].entry_keys, index'[k].entry_keys)

\* the record of a.key holds the references a call with arguments a passed
HoldsReferences(records, a) ==
    /\ a.project_id # "" => a.project_id \in Range(records[a.key].project_ids)
    /\ a.step_id # "" => a.step_id \in Range(records[a.key].step_ids)
    /\ a.entry_key # "" => a.entry_key \in Range(records[a.key].entry_keys)

C8_Added ==
    /\ \A a \in LibFoundArgs :
          index' = mark_record_found(index, a, clock, files)
          => (HoldsReferences(index', a) /\ index'[a.key].status = "found")
    /\ \A a \in LibMissingArgs :
          index' = mark_record_missing(index, a, clock)
          => (HoldsReferences(index', a) /\ index'[a.key].status = "missing")

\* C8: project_ids, step_ids and entry_keys of a record only grow: a call
\* keeps what the lists held and adds the non-empty values it was passed, no
\* value is listed twice, and mark_record_missing after mark_record_found
\* leaves the record missing with every reference still there.
C8_References ==
    /\ [](C8_NoDuplicates)
    /\ [][C8_Grows /\ C8_Added]_vars

\* a record marked found for one project and entry, then missing for another
C8_Witness ==
    \E k \in DOMAIN index :
        /\ index[k].status = "missing"
        /\ index[k].failure_count = 1
        /\ Len(index[k].project_ids) = 2
        /\ Len(index[k].entry_keys) = 2

C9_OnePerKey ==
    /\ \A k \in DOMAIN index :
          /\ index[k].key = k
          /\ index[k].id = key_to_record_id(k)
    /\ \A k1, k2 \in DOMAIN index : index[k1].id = index[k2].id => k1 = k2
    /\ DOMAIN index = DOMAIN lib_calls

C9_SameRecord ==
    /\ \A k \in DOMAIN index :
          /\ k \in DOMAIN index'
          /\ index'[k].id = index[k].id
          /\ index'[k].key = index[k].key
          /\ index'[k].created_at = index[k].created_at
    /\ Cardinality(DOMAIN index' \ DOMAIN index) <= 1
    /\ \A k \in DOMAIN index' \ DOMAIN index : index'[k].created_at = clock

\* C9: the index holds one record per key that was ever passed to a call,
\* created by the first call for the key; later calls change that record and
\* never its id, its key or the time it was created.
C9_OneRecordPerKey ==
    /\ [](C9_OnePerKey)
    /\ [][C9_SameRecord]_vars

\* a record created at time 0 and changed by a later call at time 1, beside
\* the record of another key
C9_Witness ==
    /\ Cardinality(DOMAIN index) = 2
    /\ \E k \in DOMAIN index :
          /\ index[k].created_at = 0
          /\ index[k].updated_at = 1

------------------------------------------------------------------------------
(* C11: the browser session of a run *)

\* the step that calls BrowserAssistSession(...)
ConstructStep == Len(trace') = Len(trace) + 1 /\ trace'[Len(trace')] = "session"

\* the step that calls browser_session.resolve_pdf(...)
ResolveStep == Len(trace') = Len(trace) + 1 /\ trace'[Len(trace')] = "resolve"

\* a construction was made earlier in this run: it gave the session, or it
\* raised and switched browser assist off
SessionAttempted == browser.session \/ (cfg.browser_assist_enabled /\ ~browser.enabled)

C11_AtMostOnce == ConstructStep => ~SessionAttempted

C11_OnlyAtAssist ==
    ConstructStep =>
        /\ pc = "browser_open" /\ pc' = "browser_resolve"
        /\ ent.status # "found"
        /\ ent.doi # NoText \/ Strip(Entry.url, Whitespace) # NoText

C11_FirstReaches == pc = "browser_resolve" => SessionAttempted

C11_Reused ==
    /\ ResolveStep => browser.session /\ ~ConstructStep
    /\ browser.session /\ pc \notin {"finally", "done"} => browser' = browser

\* C11: within one run a BrowserAssistSession is constructed at most once, by
\* the first entry that reaches the browser-assist step and by no step
\* outside it, and every later entry that is resolved through the browser
\* uses that session, which stays as it is until the run's finally clause.
C11_OneLazySession ==
    /\ [][C11_AtMostOnce /\ C11_OnlyAtAssist /\ C11_Reused]_vars
    /\ [](C11_FirstReaches)

\* the second entry of a batch has been resolved through the session that
\* the first entry constructed
C11_Witness ==
    /\ index_no = 1
    /\ pc = "finish"
    /\ browser.session
    /\ trace # <<>> /\ trace[Len(trace)] = "resolve"
    /\ "session" \notin Range(trace)

------------------------------------------------------------------------------
(* C12: a session that cannot be started *)

\* the construction raised for this entry or for an earlier one of the batch,
\* as the details of the entries tell
SessionFailed ==
    \/ ent.entry_browser_assist_result = "unavailable"
    \/ \E i \in DOMAIN out.changes_all :
          out.changes_all[i].details.browser_assist_result = "unavailable"

C12_NoFurtherAssist == SessionFailed => ~ConstructStep /\ ~ResolveStep

C12_FailureIsKept ==
    ConstructStep /\ ~browser'.session =>
        /\ result' = result
        /\ pc' = "browser_resolve"
        /\ ent'.status = ent.status

\* an entry finished after the failure went through the steps before browser
\* assist: it was found by one of them, or every direct candidate was fetched
C12_StillProcessed ==
    SessionFailed /\ pc = "finish" =>
        IF ent.status = "found"
        THEN ent.resolved_source \in {"cache", "local_file", "download"}
        ELSE /\ "collect" \in Range(trace)
             /\ ent.candidate_idx = Len(ent.candidates_for_entry)


\* C12: once constructing the BrowserAssistSession has failed for an entry of
\* a batch, no session is constructed and resolve_pdf is not called for that
\* entry or any later one; the failure itself raises nothing, and the later
\* entries still go through the cache, the local file and the direct download.
C12_SessionUnavailable ==
    /\ [][C12_NoFurtherAssist /\ C12_FailureIsKept]_vars
    /\ [](C12_StillProcessed)

\* a run returned in which the session failed for the first entry and the
\* second entry was downloaded directly
C12_Witness ==
    /\ pc = "done" /\ result = "returned"
    /\ Len(out.changes_all) = 2
    /\ out.changes_all[1].details.browser_assist_result = "unavailable"
    /\ out.changes_all[2].details.source = "download"
    /\ out.changes_all[2].details.browser_assist_result = "None"

------------------------------------------------------------------------------
(* C13: who gets a browser-assist Resolve *)

\* C13: an entry that is still unresolved after the cache, the local file and
\* the direct download, and has a DOI or an entry URL, has had resolve_pdf
\* called for it whenever browser assist is enabled and no construction of
\* the session has failed, whether download_enabled is set or not.
C13_ResolveAttempted ==
    /\ pc = "finish"
    /\ ent.status # "found"
    /\ cfg.browser_assist_enabled
    /\ ~SessionFailed
    /\ ent.doi # NoText \/ Strip(Entry.url, Whitespace) # NoText
    => "resolve" \in Range(trace)

------------------------------------------------------------------------------
(* C14: the reason named after a browser-assist attempt without a PDF *)

\* the step of FinishEntry
FinishStep == pc = "finish" /\ pc' # "finish"

\* an entry whose attempt ended as `ended` is reported with `reason` and
\* `assist_result`, and its record, if it has a key, is missing with `reason`
C14_Recorded(ended, reason, assist_result) ==
    FinishStep /\ ent.assist_ended = ended =>
        /\ ent.status # "found"
        /\ LastChange(out').details.pdf_status = "missing"
        /\ LastChange(out').details.missing_reason = reason
        /\ LastChange(out').details.browser_assist_result = assist_result
        /\ ent.canonical_key # NoText =>
              /\ index'[ent.canonical_key].status = "missing"
              /\ index'[ent.canonical_key].missing_reason = reason

C14_Resolved ==
    FinishStep /\ ent.assist_ended = "pdf" =>
        /\ LastChange(out').details.pdf_status = "found"
        /\ LastChange(out').details.browser_assist_result = "resolved"

\* C14: an entry whose browser-assist attempt ended without a PDF is reported
\* and recorded with browser_assist_unresolved when resolve_pdf returned
\* nothing, browser_assist_error when it raised and browser_assist_unavailable
\* when the session could not be started, with browser_assist_result
\* unresolved, error and unavailable; a successful attempt carries resolved.
C14_AssistReasons ==
    [][/\ C14_Recorded("nothing", "browser_assist_unresolved", "unresolved")
       /\ C14_Recorded("raised", "browser_assist_error", "error")
       /\ C14_Recorded("unavailable", "browser_assist_unavailable", "unavailable")
       /\ C14_Resolved]_vars

\* a returned run whose first entry's Resolve raised and whose second entry's
\* Resolve gave nothing
C14_Witness ==
    /\ pc = "done" /\ result = "returned"
    /\ Len(out.changes_all) = 2
    /\ out.changes_all[1].details.missing_reason = "browser_assist_error"
    /\ out.changes_all[2].details.missing_reason = "browser_assist_unresolved"
    /\ \A k \in DOMAIN index : index[k].status = "missing"
    /\ Cardinality(DOMAIN index) = 2

------------------------------------------------------------------------------
(* C15: the reason named without browser assist *)

\* C15: an unresolved entry that did not go through browser assist is
\* reported with not_found when no candidate was generated for it, and with
\* pdf_not_resolved when candidates were generated and none succeeded.
C15_NotFoundWithoutCandidates ==
    [][FinishStep /\ ent.status # "found" /\ ~ent.entry_browser_assist_used =>
          LastChange(out').details.missing_reason =
              IF ent.candidates_for_entry = <<>> THEN "not_found" ELSE "pdf_not_resolved"]_vars

------------------------------------------------------------------------------
(* C16: a DOI that nothing on this machine resolves, download disabled *)

\* the entry has a valid DOI, the index holds no found record for its key,
\* download is disabled and no local file matches
C16_Scenario ==
    /\ ent.doi # NoText
    /\ ~cfg.download_enabled
    /\ resolve_local_pdf_candidates(Entry, files) = <<>>
    /\ ent.canonical_key \in DOMAIN index => index[ent.canonical_key].status # "found"

C16_FailuresBefore ==
    IF ent.canonical_key \in DOMAIN index THEN index[ent.canonical_key].failure_count ELSE 0

C16_Outcome ==
    /\ LastChange(out').details.pdf_status = "missing"
    /\ LastChange(out').details.missing_reason = "pdf_not_resolved"
    /\ out'.pdf_missing = Append(out.pdf_missing, Entry)
    /\ index'[ent.canonical_key].status = "missing"
    /\ index'[ent.canonical_key].missing_reason = "pdf_not_resolved"
    /\ index'[ent.canonical_key].failure_count = C16_FailuresBefore + 1
    /\ Range(trace) \subseteq {"cache", "local"}
    /\ ent.candidates_for_entry = <<>>
    /\ ~ent.entry_browser_assist_used

\* C16: an entry with a valid DOI, for whose key the index has no found
\* record, processed with download disabled and no matching local file, is
\* reported missing with pdf_not_resolved, its record's failureCount is one
\* more than before (1 for a new record), and no candidate generation, fetch
\* or browser-assist step was taken for it.
C16_DownloadDisabled == [][FinishStep /\ C16_Scenario => C16_Outcome]_vars

\* the same DOI has failed this way twice: failureCount went 0, 1, 2
C16_Witness ==
    /\ pc = "finally"
    /\ ~cfg.download_enabled
    /\ out.pdf_found = <<>>
    /\ \E k \in DOMAIN index :
          /\ index[k].doi # NoText
          /\ index[k].missing_reason = "pdf_not_resolved"
          /\ index[k].failure_count = 2

------------------------------------------------------------------------------
(* C17: where an unresolved entry is recorded *)

C17_MissingRecord ==
    /\ ent.canonical_key \in DOMAIN index'
    /\ index'[ent.canonical_key].status = "missing"
    /\ index'[ent.canonical_key].missing_reason = LastChange(out').details.missing_reason

\* C17 as stated: every entry that finishes unresolved is recorded in the
\* index as a record with status missing whose missingReason is the
\* missing_reason of the entry's details.
C17_EveryUnresolvedRecorded ==
    [][FinishStep /\ ent.status # "found" => C17_MissingRecord]_vars

C17_Reported ==
    /\ LastChange(out').details.pdf_status = "missing"
    /\ LastChange(out').details.missing_reason \in
           {"pdf_not_resolved", "browser_assist_unresolved", "browser_assist_error",
            "browser_assist_unavailable"}
    /\ result' = result /\ result # "raising"
    /\ pc' \in {"cache", "finally"}

\* C17, amended: every entry that finishes unresolved is reported missing
\* with a reason and the step raises nothing; if the entry has a canonical
\* key (a normalised DOI or URL) the index holds a record for it with status
\* missing and that same reason, and if it has none the index is left as it
\* was.
C17_KeyedUnresolvedRecorded ==
    [][FinishStep /\ ent.status # "found" =>
          /\ C17_Reported
          /\ IF ent.canonical_key # NoText THEN C17_MissingRecord ELSE index' = index]_vars

\* a returned run with two unresolved entries, the first without a key and
\* the second with one: the index holds one record, the second entry's
C17_Witness ==
    /\ pc = "done" /\ result = "returned"
    /\ Len(out.pdf_missing) = 2
    /\ out.changes_all[1].details.cache_key = NoText
    /\ out.changes_all[2].details.cache_key # NoText
    /\ DOMAIN index = {out.changes_all[2].details.cache_key}
    /\ index[out.changes_all[2].details.cache_key].missing_reason =
           out.changes_all[2].details.missing_reason

------------------------------------------------------------------------------
(* C18: the wait window of a Resolve *)

\* the call gets max(browser_assist_wait_sec, 10) seconds, counted from the call
C18_SameWindow ==
    ResolveStep =>
        /\ ent'.wait_window = Max(cfg.browser_assist_wait_sec, 10)
        /\ ent'.deadline = ent'.wait_window
        /\ ent'.now = 0

\* the step in which resolve_pdf returns None
ReturnsNothing == pc = "browser_poll" /\ pc' = "finish" /\ ent'.assist_ended = "nothing"

C18_WindowKept ==
    pc = "browser_poll" /\ pc' \in {"browser_poll", "finish"} =>
        /\ ent'.wait_window = ent.wait_window
        /\ ent'.deadline = ent.deadline

C18_RoundsBeforeDeadline ==
    pc = "browser_poll" /\ pc' = "browser_poll" =>
        /\ ent.now < ent.deadline
        /\ ent.now < ent'.now /\ ent'.now <= ent.deadline

------------------------------------------------------------------------------
(* C19: the outputs of a completed run *)

RECURSIVE PickAt(_, _, _)
\* the entries of seq at the positions of S, from position i on, in order
PickAt(seq, S, i) ==
    IF i > Len(seq) THEN <<>>
    ELSE (IF i \in S THEN <<seq[i]>> ELSE <<>>) \o PickAt(seq, S, i + 1)

\* the run has returned its StepResult
Completed == pc = "done" /\ result = "returned"

\* the positions of the input whose entry ended with status found
FoundAt == {i \in DOMAIN out.changes_all : out.changes_all[i].details.pdf_status = "found"}

\* C19: when a run has returned, pdf_found holds the input entries whose
\* final status is found and pdf_missing the others, each input position in
\* exactly one of them and in input order; passed is pdf_found when the
\* configured pass_mode is pdf_only and the whole input for all and for any
\* other value.
C19_Partition ==
    Completed =>
        /\ DOMAIN out.changes_all = DOMAIN input_entries
        /\ out.pdf_found = PickAt(input_entries, FoundAt, 1)
        /\ out.pdf_missing = PickAt(input_entries, DOMAIN input_entries \ FoundAt, 1)
        /\ out.passed = IF out.config_pass_mode = "pdf_only" THEN out.pdf_found
                        ELSE input_entries

\* a run with an unrecognised pass_mode returned: the first entry is missing,
\* the second found, and both pass
C19_Witness ==
    /\ Completed
    /\ out.config_pass_mode = "other"
    /\ Len(input_entries) = 2
    /\ out.pdf_missing = <<input_entries[1]>>
    /\ out.pdf_found = <<input_entries[2]>>
    /\ out.passed = input_entries

------------------------------------------------------------------------------
(* C20: both modes are kept in the result *)

\* the key run() gives the entry at position i (the ID, else row_<i-1>)
KeyAt(i) ==
    IF input_entries[i].ID # "" THEN input_entries[i].ID ELSE "row_" \o ToString(i - 1)

\* one change per input entry, in input order
C20_OnePerEntry(changes) ==
    /\ DOMAIN changes = DOMAIN input_entries
    /\ \A i \in DOMAIN changes : changes[i].key = KeyAt(i)

\* C20: whatever pass_mode was configured, the returned result holds both
\* modes: mode_outputs has the whole input under all and pdf_found under
\* pdf_only; mode_changes has under each mode one change per input entry in
\* input order, all of them keep under all, and under pdf_only keep for the
\* found entries and remove for the others; outputs and changes are those of
\* the selected mode.
C20_BothModes ==
    Completed =>
        /\ out.mode_outputs.all = input_entries
        /\ out.mode_outputs.pdf_only = out.pdf_found
        /\ C20_OnePerEntry(out.mode_changes.all)
        /\ C20_OnePerEntry(out.mode_changes.pdf_only)
        /\ \A i \in DOMAIN input_entries :
              /\ out.mode_changes.all[i].action = "keep"
              /\ out.mode_changes.pdf_only[i].action =
                     IF i \in FoundAt THEN "keep" ELSE "remove"
              /\ out.mode_changes.pdf_only[i].details = out.mode_changes.all[i].details
        /\ out.pdf_found = PickAt(input_entries, FoundAt, 1)
        /\ out.passed = out.mode_outputs[out.pass_mode]
        /\ out.changes = out.mode_changes[out.pass_mode]

\* a run under mode all returned with a found and a missing entry: the
\* pdf_only change-set it keeps removes the missing one
C20_Witness ==
    /\ Completed
    /\ out.pass_mode = "all"
    /\ Len(input_entries) = 2
    /\ out.mode_outputs.pdf_only = <<input_entries[1]>>
    /\ out.mode_changes.pdf_only[1].action = "keep"
    /\ out.mode_changes.pdf_only[2].action = "remove"
    /\ out.mode_changes.all[2].action = "keep"

------------------------------------------------------------------------------
(* C21, C22: delete_record *)

\* the step that calls delete_record(record_id, delete_file)
DeleteStep(record_id) ==
    /\ pc = "idle"
    /\ deleted'.called
    /\ deleted'.record_id = record_id
    /\ deleted' # deleted \/ disk_index' # disk_index

Without(f, x) == [y \in DOMAIN f \ {x} |-> f[y]]

\* what delete_record is to do with the record of key k, given the files fs:
\* the record goes, and the file goes iff it was asked for, is managed and is there
C21_Post(r, k, fs, delete_file) ==
    \E unlink \in {/\ delete_file
                   /\ disk_index[k].managed_file
                   /\ disk_index[k].pdf_path \in DOMAIN fs} :
       /\ ~r.raised
       /\ r.index = Without(disk_index, k)
       /\ r.files = IF unlink THEN Without(fs, disk_index[k].pdf_path) ELSE fs
       /\ r.removed_file = unlink
       /\ r.removed_path = IF unlink THEN disk_index[k].pdf_path ELSE NoPath

\* every call that could be made between runs, also when some of the files
\* have gone
C21_AnyCall ==
    pc = "idle" =>
        \A k \in DOMAIN disk_index, delete_file \in BOOLEAN, gone \in SUBSET DOMAIN files :
           \E fs \in {[p \in DOMAIN files \ gone |-> files[p]]} :
              C21_Post(delete_record(disk_index, fs, disk_index[k].id, delete_file),
                       k, fs, delete_file)

\* the calls that are made
C21_Call ==
    \A k \in DOMAIN disk_index :
        DeleteStep(disk_index[k].id) =>
            C21_Post([raised |-> deleted'.raised, removed_file |-> deleted'.removed_file,
                      removed_path |-> deleted'.removed_path, index |-> disk_index',
                      files |-> files'],
                     k, files, deleted'.delete_file)

\* C21: delete_record on the id of an existing record removes that record,
\* and only it, from the index file; it unlinks the file at pdf_path if and
\* only if delete_file is true, the record has managed_file set and the file
\* exists, and otherwise leaves every file as it is; removed_file and
\* removed_path tell whether, and which, file was unlinked.
C21_DeleteRecord == [](C21_AnyCall) /\ [][C21_Call]_vars

\* a record with a managed file was deleted with delete_file set: the record
\* and that file are gone, the user's own file is still there
C21_Witness ==
    /\ deleted.called /\ ~deleted.raised
    /\ deleted.delete_file /\ deleted.removed_file
    /\ deleted.removed_path # LocalFile
    /\ deleted.removed_path \notin DOMAIN files
    /\ LocalFile \in DOMAIN files
    /\ \A k \in DOMAIN disk_index : disk_index[k].id # deleted.record_id

\* delete_record on an id no record has: KeyError, nothing written or unlinked
C22_NotFound ==
    \A record_id \in {UnknownId} \cup {disk_index'[k].id : k \in DOMAIN disk_index'} :
        DeleteStep(record_id) /\ (\A k \in DOMAIN disk_index : disk_index[k].id # record_id) =>
            /\ deleted'.raised
            /\ ~deleted'.removed_file
            /\ disk_index' = disk_index
            /\ files' = files

\* C22: delete_record with an id that matches no record raises the
\* not-found error and leaves the index file and all files unchanged, and no
\* other operation of the engine lets a failure reach its caller as an
\* exception: run() never raises.
C22_OnlyNotFoundRaises ==
    /\ [][C22_NotFound]_vars
    /\ [](result \notin {"raising", "raised"})

------------------------------------------------------------------------------
(* C23: when a run writes the index file *)

\* the positions of run() from load_pdf_index to the end of the loop
Processing ==
    {"cache", "local", "collect", "download", "browser_open", "browser_resolve",
     "browser_poll", "finish", "finally"}

C23_NoWriteBefore ==
    pc \in Processing => out.index_saves = 0 /\ disk_index' = disk_index

C23_OneWrite ==
    pc = "save" =>
        /\ index_no = Len(input_entries)
        /\ browser.session => browser.context = "closed" /\ browser.playwright = "closed"
        /\ out.index_saves = 0 /\ out'.index_saves = 1
        /\ disk_index' = index

C23_WrittenOnce ==
    Completed =>
        /\ out.index_saves = 1
        /\ disk_index = index
        /\ \A i \in DOMAIN out.changes_all :
              out.changes_all[i].details.cache_key # NoText =>
                  /\ out.changes_all[i].details.cache_key \in DOMAIN disk_index
                  /\ out.changes_all[i].details.pdf_status = "missing" =>
                        disk_index[out.changes_all[i].details.cache_key].failure_count > 0

\* C23: a run that returns has written the index file exactly once, after
\* the last entry was processed and after the browser session was closed;
\* nothing is written to the index file while the entries are processed, and
\* the one write holds the index with every record the run has changed.
C23_SavedOnceAtEnd ==
    /\ [][C23_NoWriteBefore /\ C23_OneWrite]_vars
    /\ [](C23_WrittenOnce)

\* a run of two entries that used the browser session has returned: one
\* write, after the session was closed, holding both entries' records
C23_Witness ==
    /\ Completed
    /\ Len(input_entries) = 2
    /\ browser.session /\ browser.context = "closed"
    /\ out.index_saves = 1
    /\ Cardinality(DOMAIN disk_index) = 2
    /\ disk_index = index

------------------------------------------------------------------------------
(* C24: a load beside a save *)

\* a step of load_pdf_index
LoadStep ==
    /\ store'.observed
    /\ store' # store
    /\ store'.file = store.file
    /\ store'.writer = store.writer
    /\ store'.read = store.file

\* the file holds only what save_pdf_index wrote
OnlySaves == ~store.foreign

C24_OldOrNew ==
    LoadStep /\ OnlySaves => store'.loaded.data \in {store.previous, store.saving}

\* C24: a load that interleaves with a save, or follows a save interrupted
\* partway, returns the complete previous index or the complete new index,
\* never an empty or partly written one
C24_AtomicOverwrite == [][C24_OldOrNew]_vars

------------------------------------------------------------------------------
(* C25: load_pdf_index on any content of the file *)

\* the text load_pdf_index found is a complete JSON document
Parsable(file) == file.exists /\ file.doc.t # "invalid" /\ file.upto = chunks(file.doc)

\* ... and the document is an object
ParsedObject(file) == Parsable(file) /\ file.doc.t = "object"

\* what load_pdf_index returned has a version and a dict of records
C25_Shape(data) ==
    /\ data.t = "dict"
    /\ {"version", "records"} \subseteq DOMAIN data.v
    /\ data.v["records"].t = "dict"

\* the returned dict is the parsed object, but for records and version
C25_Defaults(doc, data) ==
    /\ DOMAIN data.v = DOMAIN doc.v \cup {"version", "records"}
    /\ \A k \in DOMAIN doc.v \ {"records"} : data.v[k] = json_loads(doc.v[k])
    /\ "version" \notin DOMAIN doc.v => data.v["version"] = Py("str", "1.0")
    /\ data.v["records"] =
          IF "records" \in DOMAIN doc.v /\ doc.v["records"].t = "object"
          THEN json_loads(doc.v["records"])
          ELSE NoRecords

\* C25: load never raises on the file's content; an absent file, unparsable
\* JSON or a non-object top level gives the empty index; a parsed object gets
\* records reset to {} when it is no object and version defaulted to "1.0"
\* when missing; the result always has an object-valued records field
C25_LoadNeverRaises ==
    store.observed =>
        /\ ~store.loaded.raised
        /\ C25_Shape(store.loaded.data)
        /\ ~ParsedObject(store.read) => store.loaded.data = empty_index
        /\ ParsedObject(store.read) => C25_Defaults(store.read.doc, store.loaded.data)

\* a load found an object without version whose records are a list, and
\* returned it with version "1.0" and no records
C25_Witness ==
    /\ store.observed
    /\ ParsedObject(store.read)
    /\ "version" \notin DOMAIN store.read.doc.v
    /\ store.read.doc.v["records"].t = "array"
    /\ store.loaded.data = empty_index

------------------------------------------------------------------------------
(* C26: the round trip through index.json *)

\* save_pdf_index(x) run to its end: the file holds the whole text of x
Saved(x) == Text(json_dumps(x))

\* load(save(x)) = x, and a save of what was loaded writes the same document
C26_Same(x) ==
    \A file \in {Saved(x)} :
       \A back \in {read_pdf_index(file)} :
          /\ ~back.raised
          /\ back.data = x
          /\ Saved(back.data) = file

\* C26: for every index the engine's operations produce, in memory or on
\* disk, load(save(x)) returns x and save(load()) leaves the persisted index
\* as it was: same version, same keys, same record fields and values
C26_RoundTrip ==
    \A records \in {index, disk_index} :
       \A x \in {py_index(records)} : C26_Same(x)

\* the persisted index of a finished run holds a found record with its
\* references and a missing record whose source fields are None
C26_Witness ==
    /\ Completed
    /\ \E k \in DOMAIN disk_index :
          /\ disk_index[k].status = "found"
          /\ disk_index[k].entry_keys # <<>>
          /\ disk_index[k].size_bytes # NoSize
    /\ \E k \in DOMAIN disk_index :
          /\ disk_index[k].status = "missing"
          /\ disk_index[k].pdf_path = NoPath
          /\ disk_index[k].failure_count > 0

------------------------------------------------------------------------------
(* C27: the candidate queue of one entry *)

\* the queue and the set of seen URLs of the entry being resolved
Queue == [candidates |-> ent.candidates_for_entry, seen |-> ent.candidate_seen]

QueueUrls(candidates) == {candidates[i].url : i \in DOMAIN candidates}

\* no URL twice in the queue; every queued URL is in normalized form
C27_Distinct ==
    \A i, j \in DOMAIN ent.candidates_for_entry :
       /\ i # j => ent.candidates_for_entry[i].url # ent.candidates_for_entry[j].url
       /\ normalize_url(ent.candidates_for_entry[i].url) = ent.candidates_for_entry[i].url

\* URLs a later provider may propose: queued ones, written differently or not
Proposed == {UrlFile, UrlPage, <<" ">> \o UrlFile, <<"{">> \o UrlPage \o <<"}">>}

\* a proposal of a URL the queue holds changes nothing, whatever the label;
\* a new URL goes to the end with the label of its proposer
C27_Proposal ==
    pc = "download" =>
       \A url \in Proposed :
          \A added \in {add_url_candidate(Queue, url, "later")} :
             IF normalize_url(url) \in QueueUrls(Queue.candidates)
             THEN added.candidates = Queue.candidates
             ELSE added.candidates =
                     Append(Queue.candidates,
                            [url |-> normalize_url(url), provider |-> "later"])

\* while the queue is worked through, what it holds stays where it is
C27_Kept ==
    pc = "download" /\ pc' = "download" =>
       /\ Len(ent'.candidates_for_entry) >= Len(ent.candidates_for_entry)
       /\ SubSeq(ent'.candidates_for_entry, 1, Len(ent.candidates_for_entry))
             = ent.candidates_for_entry

\* C27: at every point of an entry's attempt the queue holds no two
\* candidates with the same normalized URL, whatever labels proposed them,
\* and the first provider that proposed a URL keeps it
C27_NoDuplicateCandidates ==
    /\ [](C27_Distinct /\ C27_Proposal)
    /\ [][C27_Kept]_vars

\* OpenAlex and Semantic Scholar both named the file's URL and the queue
\* holds it once, under openalex, also after a landing page named it again
C27_Witness ==
    /\ pc = "download"
    /\ \E i \in DOMAIN trace : trace[i] = "discover"
    /\ \E i \in DOMAIN ent.candidates_for_entry :
          /\ ent.candidates_for_entry[i].url = UrlFile
          /\ ent.candidates_for_entry[i].provider = "openalex"
    /\ ent.candidate_idx = Len(ent.candidates_for_entry)

------------------------------------------------------------------------------
(* C28: normalize_doi and normalize_url applied to their own result *)

\* the helper was applied to a text and then to what it returned
AppliedTwice(fn) == call.fn = fn /\ Len(call.out) = 2

\* C28: normalize_doi and normalize_url are idempotent: wherever normalize(x)
\* is defined, normalize(normalize(x)) = normalize(x), also for texts with
\* percent-escapes, backslashes, braces, blanks, prefixes, queries, fragments
C28_Idempotent ==
    \A fn \in {"normalize_doi", "normalize_url"} :
       AppliedTwice(fn) => call.out[2] = call.out[1]

------------------------------------------------------------------------------
(* C29: the canonical key of an entry with a DOI *)

\* canonical_key_for_entry was called on an entry whose DOI is one of the
\* ways to write Doi1
KeyedByDoi == call.fn = "canonical_key_for_entry" /\ call.args.entry.doi \in DoiVariants

\* C29: for an entry with a valid DOI the key is doi:<normalized DOI>,
\* whatever URL the entry has, on every call, and the same for all ways to
\* write the DOI that differ in letter case, surrounding braces, backslashes,
\* a doi: prefix or a doi.org resolver prefix
C29_DoiKey ==
    KeyedByDoi =>
       /\ normalize_doi(call.args.entry.doi) = Doi1
       /\ \A i \in DOMAIN call.out :
             call.out[i] = Txt_doi_colon \o normalize_doi(call.args.entry.doi)

\* the key was asked twice for an entry that has a URL and whose DOI is
\* written in braces, behind a resolver, in upper case
C29_Witness ==
    /\ KeyedByDoi
    /\ Len(call.out) = 2
    /\ call.args.entry.url = UrlPage
    /\ call.args.entry.doi =
          <<"h", "t", "t", "p", "s", ":", "/", "/", "d", "o", "i", ".", "o", "r", "g", "/">>
             \o DoiUpper \o <<"}">>
    /\ call.out[2] = Txt_doi_colon \o Doi1

------------------------------------------------------------------------------
(* C30: is_pdf_likely_for_doi *)

LikelyCalled == call.fn = "is_pdf_likely_for_doi"

\* the normalized DOI, and its part after the first slash when that has at
\* least 6 characters
Needles(normalized) ==
    {normalized} \cup
    {DropFirst(normalized, i) : i \in {j \in {FirstOf(normalized, {"/"})} :
                                          Len(normalized) - j >= 6}}

\* the lower-cased first SampleBytes bytes of the body (all of a shorter
\* body), and the unquoted lower-cased final URL
SampledTexts(a) ==
    {Lower(SubSeq(body_bytes(a.body), 1, Min(a.body.pad + Len(a.body.text), SampleBytes))),
     Lower(unquote(a.final_url))}

\* C30: is_pdf_likely_for_doi is true when no DOI is given; for a valid DOI
\* it is true exactly when the lower-cased first 2,000,000 bytes of the body
\* or the unquoted lower-cased final URL contain the normalized DOI or its
\* suffix after the first slash of at least 6 characters
C30_LikelyForDoi ==
    LikelyCalled =>
       \A a \in {call.args.likely} :
          /\ a.doi = NoText => call.out[1]
          /\ \A normalized \in {normalize_doi(a.doi)} \ {NoText} :
                call.out[1] =
                   (\E text \in SampledTexts(a), needle \in Needles(normalized) :
                       Contains(text, needle))

\* the DOI stands in the body behind the first 2,000,000 bytes and nowhere
\* else: not likely
C30_Witness ==
    /\ LikelyCalled
    /\ call.args.likely.body.pad = SampleBytes
    /\ call.args.likely.doi = Doi1Raw
    /\ call.out = <<FALSE>>

------------------------------------------------------------------------------
(* C31: fetch_pdf_bytes *)

FetchCalled == call.fn = "fetch_pdf_bytes"

\* the answer is one fetch_pdf_bytes may return: status 200, declared length
\* and bytes read within the limit, a body, and a PDF by header or by magic
Acceptable(resp, max_bytes) ==
    /\ ~resp.error
    /\ resp.status = 200
    /\ resp.content_length <= max_bytes
    /\ Len(resp.body) <= max_bytes
    /\ resp.body # <<>>
    /\ \/ Contains(Lower(resp.content_type), <<"p", "d", "f">>)
       \/ StartsWith(resp.body, Txt_pdf_magic)

\* C31: fetch returns a result only if the status is 200, the declared
\* Content-Length and the bytes read are both at most maxBytes, the body is
\* not empty, and the Content-Type contains "pdf" or the body begins with
\* %PDF-; in every other case, a network exception included, it returns
\* nothing
C31_FetchResult ==
    FetchCalled =>
       \A a \in {call.args.fetch} :
          /\ call.out[1].ok = Acceptable(a.resp, a.max_bytes)
          /\ call.out[1].ok => /\ call.out[1].body = a.resp.body
                               /\ call.out[1].final_url = a.resp.final_url
          /\ ~call.out[1].ok => call.out[1] = NoFetch

\* a body of exactly max_bytes bytes without a PDF Content-Type, taken for
\* its magic
C31_Witness ==
    /\ FetchCalled
    /\ call.args.fetch.max_bytes = Len(BodyOther)
    /\ call.args.fetch.resp.body = BodyOther
    /\ call.args.fetch.resp.content_type = Txt_text_html
    /\ call.args.fetch.resp.content_length = Len(BodyOther)
    /\ call.out[1].ok

------------------------------------------------------------------------------
(* C32: the loop over the candidates of one entry *)

\* the loop of lines 996-1064 is straight-line code of run(): once entered,
\* it goes on until it is left
SpecLoop == Init /\ [][Next]_vars /\ WF_vars(DownloadStep)

Distinct(s) == \A i, j \in 1..Len(s) : i # j => s[i] # s[j]

\* no URL is fetched twice, none is the seed of a discovery twice, and the
\* seeds are fetched URLs whose fetch gave nothing
C32_Once ==
    /\ Distinct([i \in 1..Len(ent.fetched_urls) |-> ent.fetched_urls[i].url])
    /\ Distinct(ent.landing_seeds)
    /\ \A i \in 1..Len(ent.landing_seeds) :
          \E j \in 1..Len(ent.fetched_urls) :
             ent.fetched_urls[j] = [url |-> ent.landing_seeds[i], ok |-> FALSE]

\* the loop is left after a fetch that gave a PDF, the only one that did, or
\* with the queue exhausted
C32_Exit ==
    (pc = "download" /\ pc' # "download") =>
       \/ /\ Len(ent'.fetched_urls) = Len(ent.fetched_urls) + 1
          /\ \A i \in 1..Len(ent'.fetched_urls) :
                ent'.fetched_urls[i].ok = (i = Len(ent'.fetched_urls))
       \/ /\ ent.candidate_idx = Len(ent.candidates_for_entry)
          /\ \A i \in 1..Len(ent.fetched_urls) : ~ent.fetched_urls[i].ok
          /\ ent' = ent

C32_Terminates == (pc = "download") ~> (pc # "download")

\* C32: within the direct-download loop of one entry each normalized
\* candidate URL is fetched at most once and landing-page discovery is run
\* from each URL at most once, only after the fetch of that URL failed; the
\* loop terminates, at the first successful fetch or with the queue exhausted
C32_FetchedOnceAndTerminates ==
    /\ []C32_Once
    /\ [][C32_Exit]_vars
    /\ C32_Terminates

\* the queue grew by a discovered URL and was exhausted after two fetches
\* and two discoveries
C32_Witness ==
    /\ pc = "browser_open"
    /\ ent.status # "found"
    /\ Len(ent.fetched_urls) = 2
    /\ Len(ent.landing_seeds) = 2
    /\ ent.candidate_idx = Len(ent.candidates_for_entry)
    /\ ent.fetched_urls[2].url = UrlFile

------------------------------------------------------------------------------
(* C33: one call of resolve_pdf *)

Resolving == call.fn = "resolve_pdf"

\* no URL is requested twice, and the requests follow the queue
C33_RequestedOnce ==
    /\ Distinct([i \in 1..Len(call.requested) |-> call.requested[i].url])
    /\ Len(call.requested) <= Len(call.queue.candidates)
    /\ \A i \in 1..Len(call.requested) :
          call.requested[i].url = call.queue.candidates[i].url

\* when a round is over, every candidate of the queue has been requested
C33_TriedOnTick ==
    call.at = "wait" => Len(call.requested) = Len(call.queue.candidates)

\* what is returned is the answer to the last request, the first that was a
\* PDF and likely for the DOI
C33_FirstTaken ==
    /\ \A i \in 1..Len(call.requested) :
          call.requested[i].taken =>
             /\ i = Len(call.requested)
             /\ call.at = "returned"
             /\ call.out[1].ok
             /\ call.out[1].final_url = call.requested[i].url
             /\ call.out[1].provider = call.queue.candidates[i].provider
             /\ is_pdf_likely_for_doi(call.out[1].body, call.out[1].final_url, call.args.doi)
    /\ (call.at = "returned" /\ call.out[1].ok) =>
          /\ call.requested # <<>>
          /\ call.requested[Len(call.requested)].taken

\* without a candidate taken the call returns None; it raises only where a
\* request raised
C33_Unresolved ==
    /\ (call.at = "returned" /\ ~call.out[1].ok) => call.out[1] = NoFetch
    /\ call.at = "raised" =>
          /\ call.requested # <<>>
          /\ call.requested[Len(call.requested)].raised
          /\ call.now < call.deadline

\* C33: within one call of resolve_pdf no candidate URL is requested more
\* than once across the poll ticks, the candidates discovered on a later tick
\* are tried on that tick, and the call returns the first candidate in queue
\* order whose body is a PDF and passes is_pdf_likely_for_doi; if none does
\* before the deadline it returns None and raises nothing
C33_ResolveCall ==
    Resolving =>
       /\ C33_RequestedOnce
       /\ C33_TriedOnTick
       /\ C33_FirstTaken
       /\ C33_Unresolved

\* the third request, of a URL found on the second tick, is the first taken
C33_Witness ==
    /\ Resolving
    /\ call.at = "returned"
    /\ call.out[1].ok
    /\ call.tick = 2
    /\ Len(call.requested) = 3
    /\ call.requested[1].tick = 1
    /\ call.requested[3].tick = 2
    /\ call.args.doi = Doi1

\* the deadline passed with every candidate tried and none taken
C33_WitnessDeadline ==
    /\ Resolving
    /\ call.at = "returned"
    /\ ~call.out[1].ok
    /\ call.now >= call.deadline
    /\ Len(call.requested) = 3

------------------------------------------------------------------------------
(* C34: the key of an entry that has none *)

\* the entry in hand has no canonical key, and a direct download or the
\* browser session got its PDF
KeylessFetched ==
    /\ pc \in {"browser_open", "finish"}
    /\ normalize_doi(Entry.doi) = NoText
    /\ canonical_key_for_entry(Entry) = NoText
    /\ ent.status = "found"
    /\ ent.resolved_source \in {"download", "browser_assist"}

\* url:<normalized final URL>, or entry:<entry id>
C34_Key ==
    IF normalize_url(ent.resolved_url) # NoText
    THEN Txt_url_colon \o normalize_url(ent.resolved_url)
    ELSE <<"e", "n", "t", "r", "y", ":", Entry.ID>>

\* C34: when an entry has no canonical key and a direct or browser-assisted
\* fetch succeeds, the bytes are stored and the record is created under the
\* key url:<normalized final URL>, or entry:<entry id> when the final URL
\* cannot be normalized; mark_record_found is never called with an absent
\* key, and the managed path is the one derived from the synthesized key
C34_SynthesizedKey ==
    /\ NoText \notin DOMAIN index
    /\ KeylessFetched =>
          \A key \in {C34_Key} :
             /\ ent.canonical_key = key
             /\ key \in DOMAIN index
             /\ index[key].status = "found"
             /\ index[key].managed_file
             /\ index[key].source_url = ent.resolved_url
             /\ index[key].id = key_to_record_id(key)
             /\ index[key].pdf_path = managed_pdf_path_for_key(key)
             /\ ent.resolved_path = managed_pdf_path_for_key(key)
             /\ managed_pdf_path_for_key(key) \in DOMAIN files
             /\ files[managed_pdf_path_for_key(key)] \in {BodyDoi, BodyOther}

\* a direct download whose final URL cannot be normalized: the key is
\* entry:e3
C34_Witness ==
    /\ KeylessFetched
    /\ ent.resolved_source = "download"
    /\ ent.resolved_url = UrlFtp
    /\ ent.canonical_key = <<"e", "n", "t", "r", "y", ":", "e3">>

\* the browser session got the PDF: the key is url:http://h/f.pdf
C34_WitnessAssist ==
    /\ KeylessFetched
    /\ ent.resolved_source = "browser_assist"
    /\ ent.canonical_key = Txt_url_colon \o UrlFile

------------------------------------------------------------------------------
(* C35: the provider lookups of collect_candidate_urls *)

CollectCalled == call.fn = "collect_candidate_urls"

AllRaise == [openalex |-> LookupRaises, semantic_scholar |-> LookupRaises,
             unpaywall |-> LookupRaises]

\* the lookup failed: the request raised, the status was not 200, or the
\* body proved malformed
LookupFailed(answer) ==
    answer.raises \/ answer.status # 200 \/ answer.read < Len(answer.urls)

\* the candidates hold every URL the provider's answer gave before it failed,
\* if it did
C35_Holds(cands, answer, provider) ==
    answer.raises \/ answer.status # 200 \/
       \A i \in 1..answer.read :
          normalize_url(answer.urls[i]) # NoText =>
             \E j \in 1..Len(cands) : cands[j].url = normalize_url(answer.urls[i])

\* C35: a failure of any one provider lookup (an exception, a status other
\* than 200, a malformed body) raises nothing, removes no candidate already
\* collected and does not keep the remaining providers from being queried;
\* the candidates from the entry's own fields, the DOI resolver and the
\* publisher templates are there for every entry with a DOI
C35_ProviderFailures ==
    CollectCalled =>
       \A a \in {call.args.collect} :
       \A doi \in {normalize_doi(a.entry.doi)} :
       \A cands \in {call.out[1]} :
       \A base \in {collect_candidate_urls(a.entry, doi, a.unpaywall_email, AllRaise)} :
          /\ Len(base) <= Len(cands)
          /\ SubSeq(cands, 1, Len(base)) = base
          /\ doi # NoText =>
                /\ \E i \in 1..Len(base) :
                      base[i] = [url |-> normalize_url(DoiResolverUrl(doi)),
                                 provider |-> "doi_resolver"]
                /\ is_acm_doi(doi) =>
                      \E i \in 1..Len(base) : base[i].provider = "acm_direct_pdf"
                /\ a.entry.url # NoText =>
                      base[1] = [url |-> normalize_url(a.entry.url), provider |-> "entry_url"]
                /\ C35_Holds(cands, a.api.openalex, "openalex")
                /\ C35_Holds(cands, a.api.semantic_scholar, "semantic_scholar")
                /\ a.unpaywall_email # "" => C35_Holds(cands, a.api.unpaywall, "unpaywall")

\* OpenAlex raised and Unpaywall's body proved malformed; the candidates hold
\* the templates of the ACM, what Semantic Scholar named and what Unpaywall
\* named before it failed
C35_Witness ==
    /\ CollectCalled
    /\ call.args.collect.entry = EntryAcm
    /\ call.args.collect.unpaywall_email # ""
    /\ call.args.collect.api.openalex.raises
    /\ ~LookupFailed(call.args.collect.api.semantic_scholar)
    /\ call.args.collect.api.unpaywall.read = 1
    /\ call.args.collect.api.unpaywall.urls[1] = UrlFile
    /\ LookupFailed(call.args.collect.api.unpaywall)
    /\ \E i, j \in 1..Len(call.out[1]) :
          /\ call.out[1][i] = [url |-> UrlOther, provider |-> "semantic_scholar"]
          /\ call.out[1][j] = [url |-> UrlFile, provider |-> "unpaywall"]

------------------------------------------------------------------------------
(* C36: the attempt after a download *)

\* the key run() gives the entry in hand (lines 885-889)
KeyInHand ==
    IF normalize_doi(Entry.doi) # NoText
    THEN Txt_doi_colon \o normalize_doi(Entry.doi)
    ELSE canonical_key_for_entry(Entry)

\* the index holds, under the key of the entry in hand, a found record of a
\* managed file, stored by a direct download or by browser assist, and the
\* file is there with its bytes
ResolvedBefore ==
    /\ KeyInHand # NoText
    /\ KeyInHand \in DOMAIN index
    /\ index[KeyInHand].status = "found"
    /\ index[KeyInHand].managed_file
    /\ index[KeyInHand].pdf_path = managed_pdf_path_for_key(KeyInHand)
    /\ index[KeyInHand].pdf_path \in DOMAIN files
    /\ files[index[KeyInHand].pdf_path] \in {BodyDoi, BodyOther}

\* C36: if an entry was resolved by direct download or browser assist (the
\* record found, the file managed and intact), the next attempt for the same
\* canonical key with reuse_cache enabled is a cache hit
C36_NextAttemptHits ==
    [][(pc = "cache" /\ pc' = "local" /\ cfg.reuse_cache /\ ResolvedBefore)
          => (ent'.status = "found" /\ ent'.resolved_source = "cache")]_vars

\* the same, for a stored file that names the DOI or has none to name
C36_LikelyFileHits ==
    [][(pc = "cache" /\ pc' = "local" /\ cfg.reuse_cache /\ ResolvedBefore
        /\ is_cached_pdf_likely_for_doi(files, index[KeyInHand].pdf_path,
                                        index[KeyInHand].source_url,
                                        normalize_doi(Entry.doi)))
          => (ent'.status = "found" /\ ent'.resolved_source = "cache"
              /\ files' = files)]_vars

------------------------------------------------------------------------------
(* C37: delete_record while a run is in progress *)

\* the key run() gives an entry (lines 885-889)
KeyOf(entry) ==
    IF normalize_doi(entry.doi) # NoText
    THEN Txt_doi_colon \o normalize_doi(entry.doi)
    ELSE canonical_key_for_entry(entry)

\* delete_record removed a record while the run was between its load and its
\* save
DeletedInRun == deleted.called /\ deleted.in_run /\ ~deleted.raised

\* the entries the run took up after the delete, the one in hand included
EntriesAfterDelete == (deleted.index_no + 1)..Len(input_entries)

\* C37: when delete_record comes between the load and the save of a run, the
\* deleted record stays absent from the persisted index after the run unless
\* the run resolved an entry with that key after the delete
C37_DeletedStaysAbsent ==
    [][(pc = "save" /\ pc' = "done" /\ DeletedInRun) =>
          \A k \in DOMAIN disk_index' :
             disk_index'[k].id = deleted.record_id =>
                \E i \in EntriesAfterDelete : KeyOf(input_entries[i]) = k]_vars

\* the run saved a record that no entry of its batch has the key of, after
\* delete_record had removed it
C37_WrittenBack ==
    /\ pc = "done"
    /\ result = "returned"
    /\ DeletedInRun
    /\ \E k \in DOMAIN disk_index :
          /\ disk_index[k].id = deleted.record_id
          /\ \A i \in 1..Len(input_entries) : KeyOf(input_entries[i]) # k

------------------------------------------------------------------------------
(* C38: a run that raises *)

\* run() raised while it wrote the PDF of the entry in hand
RunRaised == pc = "done" /\ result = "raised"

\* the managed file the run was writing when it raised
UnfinishedPath == managed_pdf_path_for_key(ent.canonical_key)

\* the run that raised did not save the index
C38_IndexNotSaved == RunRaised => out.index_saves = 0

C38_TruncatedUnderIndex ==
    /\ RunRaised
    /\ \E k \in DOMAIN disk_index :
          /\ disk_index[k].status = "found"
          /\ disk_index[k].managed_file
          /\ disk_index[k].pdf_path = UnfinishedPath
          /\ UnfinishedPath \in DOMAIN files
          /\ files[UnfinishedPath] = NoText

------------------------------------------------------------------------------
(* C39: status and missing_reason go together *)

\* a record is found exactly when it has no missing_reason
StatusIffNoReason(records) ==
    \A k \in DOMAIN records :
       /\ records[k].status \in {"found", "missing"}
       /\ (records[k].status = "found") <=> (records[k].missing_reason = "None")

\* a record made by _ensure_record alone is missing with reason not_checked
C39_FreshNotChecked ==
    \A k \in DOMAIN index :
       (index[k].status = "missing" /\ index[k].failure_count = 0)
          => index[k].missing_reason = "not_checked"

\* mark_record_missing leaves a reason that is not null
C39_MissingHasReason ==
    \A k \in DOMAIN index :
       (index[k].status = "missing" /\ index[k].failure_count > 0)
          => index[k].missing_reason \notin {"None", ""}

\* C39: in every index reachable through _ensure_record, mark_record_found
\* and mark_record_missing, a record has status found if and only if its
\* missing_reason is null: a fresh record is missing with not_checked,
\* mark_record_found clears the reason, mark_record_missing sets one
C39_FoundIffNoReason ==
    /\ StatusIffNoReason(index)
    /\ C39_FreshNotChecked
    /\ C39_MissingHasReason

\* one record marked missing and then found, beside a fresh one
C39_Witness ==
    /\ \E k \in DOMAIN index :
          /\ index[k].status = "found"
          /\ index[k].failure_count > 0
          /\ index[k].missing_reason = "None"
    /\ \E k \in DOMAIN index :
          /\ index[k].status = "missing"
          /\ index[k].missing_reason = "not_checked"

\* the same in the index a run works on and in the one it saves
C39_InRuns == StatusIffNoReason(index) /\ StatusIffNoReason(disk_index)

====
